---- MODULE Spec2Model ----
(***************************************************************************)
(* Launcher / environment-pipeline core of ifsbench.                       *)
(*                                                                         *)
(* Python strings are sequences of one-character strings, Python lists are *)
(* sequences, Python dicts are sequences of items in insertion order. Python *)
(* objects that are mutable and can be aliased (LaunchData, its cmd list   *)
(* and env dict, EnvPipeline) live in the heap and are named by their index. *)
(***************************************************************************)
EXTENDS Integers, Sequences, FiniteSets, TLC

VARIABLES
    pc,        \* "idle" | "wrap" (inside CompositeLauncher.prepare's loop) | "done"
    heap,      \* object store; heap[1] is the caller's EnvPipeline
    call,      \* the arguments of the call in progress / last call
    cur,       \* CompositeLauncher.prepare: its local variable launch_data (heap id)
    wi,        \* CompositeLauncher.prepare: index of the next wrapper
    result,    \* heap id of the LaunchData returned by the last call, 0 if none
    stages,    \* per stage of the last call: heap id and value of the LaunchData it produced
    clock,     \* index into Times of the wall clock
    files,     \* file system: path -> lines of the file
    dirs,      \* file system: directories created
    log,       \* diagnostics (warning/debug) emitted by the last call
    again,     \* heap id of the LaunchData the caller got by repeating the call, 0 if none
    defined,        \* the classes defined (imported) so far
    subclasses,     \* SubclassableSerialisationMixin._subclasses: __qualname__ -> class
    adapter,        \* per polymorphic base: the classes of its _discriminating_type_adapter
    last            \* the last class definition, from_config or dump_config and its outcome

launch == <<pc, heap, call, cur, wi, result, stages, clock, files, dirs, log, again>>
serial == <<defined, subclasses, adapter, last>>
rest == <<serial>>
vars == <<launch, rest>>

----------------------------------------------------------------------------
(* Bounds of the model *)

MaxHandlers == 1      \* handlers the caller adds to its pipeline
MaxPipeline == 3      \* handlers in a pipeline that is executed on its own
MaxData == 1          \* runtime data handlers of each part of a benchmark setup
MaxFiles == 3         \* files in the directory a RenameHandler works on
MaxRecursion == 20    \* nested calls of one model_dump
MaxCalls == 3         \* setup_rundir calls on one benchmark
MaxWrappers == 2      \* wrappers of a CompositeLauncher
MaxClock == 2         \* clock readings available

----------------------------------------------------------------------------
(* Python values *)

NoneS == <<"<None>">>            \* None where a str is expected
NoneL == << <<"<None>">> >>      \* None where a list of str is expected
NoneI == -1                      \* None where an int is expected
NoneE == "None"                  \* None where an enum member is expected
NoneRef == 0                     \* None where an object is expected

Truthy(x) == x # NoneS /\ x # NoneL /\ x # <<>>
TruthyInt(n) == n # NoneI /\ n # 0

s_LD_LIBRARY_PATH ==
    <<"L","D","_","L","I","B","R","A","R","Y","_","P","A","T","H">>
s_OMP_NUM_THREADS ==
    <<"O","M","P","_","N","U","M","_","T","H","R","E","A","D","S">>
s_mpirun == <<"m","p","i","r","u","n">>
s_ddt == <<"d","d","t">>
s_dashdash == <<"-","-">>
s_bind_to == <<"-","-","b","i","n","d","-","t","o">>
s_map_by == <<"-","-","m","a","p","-","b","y">>
s_none == <<"n","o","n","e">>
s_socket == <<"s","o","c","k","e","t">>
s_core == <<"c","o","r","e">>
s_hwthread == <<"h","w","t","h","r","e","a","d">>
s_numa == <<"n","u","m","a">>
s_PE == <<":","P","E","=">>
s_bin_bash == <<"/","b","i","n","/","b","a","s","h">>
s_bash_scripts == <<"b","a","s","h","_","s","c","r","i","p","t","s">>
s_sh == <<".","s","h">>
s_pathsep == <<":">>

Digits == <<"0","1","2","3","4","5","6","7","8","9">>

RECURSIVE str(_)
str(n) == IF n < 10 THEN <<Digits[n + 1]>>
          ELSE str(n \div 10) \o <<Digits[(n % 10) + 1]>>

RECURSIVE Pad(_, _)
Pad(s, width) == IF Len(s) >= width THEN s ELSE Pad(<<"0">> \o s, width)

RECURSIVE Concat(_)
Concat(ss) == IF ss = <<>> THEN <<>> ELSE Head(ss) \o Concat(Tail(ss))

RECURSIVE split(_, _)
split(s, sep) ==
    LET RECURSIVE firstSep(_)
        firstSep(i) == IF i > Len(s) THEN 0
                       ELSE IF s[i] = sep THEN i ELSE firstSep(i + 1)
        k == firstSep(1)
    IN IF k = 0 THEN <<s>>
       ELSE <<SubSeq(s, 1, k - 1)>> \o split(SubSeq(s, k + 1, Len(s)), sep)

RECURSIVE format(_, _)
format(option, value) ==
    IF Len(option) < 2 THEN option
    ELSE IF option[1] = "{" /\ option[2] = "}"
         THEN value \o format(SubSeq(option, 3, Len(option)), value)
         ELSE <<option[1]>> \o format(Tail(option), value)

\* A dict is the sequence of its <<key, value>> items in insertion order.
EmptyDict == <<>>
DictKeys(d) == {d[i][1] : i \in DOMAIN d}
DictGet(d, key) == d[CHOOSE i \in DOMAIN d : d[i][1] = key][2]
DictSet(d, key, value) ==
    IF key \in DictKeys(d)
    THEN [i \in DOMAIN d |-> IF d[i][1] = key THEN <<key, value>> ELSE d[i]]
    ELSE Append(d, <<key, value>>)
DictDel(d, key) == SelectSeq(d, LAMBDA kv : kv[1] # key)
\* dict equality of Python does not look at the order of the items
AsMap(d) == [k \in DictKeys(d) |-> DictGet(d, k)]

----------------------------------------------------------------------------
(* EnvHandler / EnvPipeline *)

EnvHandler(mode, key, value) == [mode |-> mode, key |-> key, value |-> value]

EnvHandler_execute(handler, env) ==
    CASE handler.mode = "SET" -> DictSet(env, handler.key, handler.value)
      [] handler.mode = "APPEND" ->
            IF handler.key \in DictKeys(env) /\ DictGet(env, handler.key) # <<>>
            THEN DictSet(env, handler.key,
                         DictGet(env, handler.key) \o s_pathsep \o handler.value)
            ELSE DictSet(env, handler.key, handler.value)
      [] handler.mode = "PREPEND" ->
            IF handler.key \in DictKeys(env) /\ DictGet(env, handler.key) # <<>>
            THEN DictSet(env, handler.key,
                         handler.value \o s_pathsep \o DictGet(env, handler.key))
            ELSE DictSet(env, handler.key, handler.value)
      [] handler.mode = "DELETE" -> DictDel(env, handler.key)
      [] handler.mode = "CLEAR" -> EmptyDict

\* as ApplyHandlers, but running the handlers from the last to the first
RECURSIVE ApplyHandlers_reversed(_, _)
ApplyHandlers_reversed(handlers, env) ==
    IF handlers = <<>> THEN env
    ELSE EnvHandler_execute(Head(handlers), ApplyHandlers_reversed(Tail(handlers), env))

RECURSIVE ApplyHandlers(_, _)
ApplyHandlers(handlers, env) ==
    IF handlers = <<>> THEN env
    ELSE ApplyHandlers(Tail(handlers), EnvHandler_execute(Head(handlers), env))

DefaultEnvPipeline ==
    [kind |-> "EnvPipeline", handlers |-> <<>>, env_initial |-> EmptyDict]

EnvPipeline_execute(p) == ApplyHandlers(p.handlers, p.env_initial)

\* p.add(handler): the pipeline object at heap[ref] gets the handler appended
EnvPipeline_add(h, ref, handler) ==
    [h EXCEPT ![ref].handlers = Append(@, handler)]

\* p.copy(deep=True): a new object with its own handler list and snapshot
EnvPipeline_copy(h, ref) == Append(h, h[ref])

----------------------------------------------------------------------------
(* LaunchData objects on the heap *)

ListObj(v) == [kind |-> "list", v |-> v]
DictObj(v) == [kind |-> "dict", v |-> v]

\* LaunchData(run_dir=..., cmd=..., env=...): the cmd list, the env dict and
\* the LaunchData are three new objects; the LaunchData is the last one.
NewLaunchData(h, run_dir, cmd, env) ==
    h \o << ListObj(cmd), DictObj(env),
            [kind |-> "LaunchData", run_dir |-> run_dir,
             cmd |-> Len(h) + 1, env |-> Len(h) + 2] >>

\* the value of a LaunchData, as its dataclass __eq__ compares it
LDValue(h, ld) ==
    [run_dir |-> h[ld].run_dir, cmd |-> h[h[ld].cmd].v, env |-> AsMap(h[h[ld].env].v)]

\* copy.deepcopy(launch_data)
deepcopy(h, ld) == NewLaunchData(h, h[ld].run_dir, h[h[ld].cmd].v, h[h[ld].env].v)

----------------------------------------------------------------------------
(* Parts common to DirectLauncher.prepare and MpirunLauncher.prepare *)

\* as WorkingPipeline, but going on with the caller's pipeline itself
WorkingPipeline_shared(h, env_pipeline) ==
    IF env_pipeline = NoneRef
    THEN [heap |-> Append(h, DefaultEnvPipeline), ep |-> Len(h) + 1]
    ELSE [heap |-> h, ep |-> env_pipeline]

\* if env_pipeline is None: DefaultEnvPipeline() else env_pipeline.copy(deep=True)
\* Returns the heap and the id ep of the pipeline the launcher goes on with.
WorkingPipeline(h, env_pipeline) ==
    IF env_pipeline = NoneRef
    THEN [heap |-> Append(h, DefaultEnvPipeline), ep |-> Len(h) + 1]
    ELSE [heap |-> EnvPipeline_copy(h, env_pipeline), ep |-> Len(h) + 1]

\* as AddLibraryPaths, but with PREPEND handlers
RECURSIVE AddLibraryPaths_prepend(_, _, _)
AddLibraryPaths_prepend(h, ep, library_paths) ==
    IF ~Truthy(library_paths) THEN h
    ELSE AddLibraryPaths_prepend(
            EnvPipeline_add(h, ep,
                EnvHandler("PREPEND", s_LD_LIBRARY_PATH, Head(library_paths))),
            ep, Tail(library_paths))

RECURSIVE AddLibraryPaths(_, _, _)
AddLibraryPaths(h, ep, library_paths) ==
    IF ~Truthy(library_paths) THEN h
    ELSE AddLibraryPaths(
            EnvPipeline_add(h, ep,
                EnvHandler("APPEND", s_LD_LIBRARY_PATH, Head(library_paths))),
            ep, Tail(library_paths))

----------------------------------------------------------------------------
(* DirectLauncher *)

\* as DirectLauncher_cmd, but the flags are left out when there is no executable
DirectLauncher_cmd_flagsIgnored(self, cmd, custom_flags) ==
    (IF Truthy(self.executable) THEN <<self.executable>> \o self.flags ELSE <<>>)
    \o (IF Truthy(custom_flags) THEN custom_flags ELSE <<>>)
    \o cmd

DirectLauncher_cmd(self, cmd, custom_flags) ==
    (IF Truthy(self.executable) THEN <<self.executable>> ELSE <<>>)
    \o self.flags
    \o (IF Truthy(custom_flags) THEN custom_flags ELSE <<>>)
    \o cmd

\* A call takes and returns a world w = [heap, log, files, dirs, ld]; ld is the
\* heap id of the LaunchData the call returned.
DirectLauncher_prepare(w, self, run_dir, job, cmd, library_paths, env_pipeline, custom_flags) ==
    LET wp == WorkingPipeline(w.heap, env_pipeline)
        ep == wp.ep
        h2 == AddLibraryPaths(wp.heap, ep, library_paths)
        full_cmd == DirectLauncher_cmd(self, cmd, custom_flags)
        env == EnvPipeline_execute(h2[ep])
        h3 == NewLaunchData(h2, run_dir, full_cmd, env)
    IN [w EXCEPT !.heap = h3, !.ld = Len(h3)]

----------------------------------------------------------------------------
(* MpirunLauncher *)

job_options_map ==
    << <<"tasks", <<"-","n"," ","{","}">> >>,
       <<"tasks_per_node", <<"-","-","n","p","e","r","n","o","d","e"," ","{","}">> >>,
       <<"tasks_per_socket",
         <<"-","-","n","p","e","r","s","o","c","k","e","t"," ","{","}">> >> >>

bind_options_map(bind) ==
    CASE bind = "BIND_NONE" -> <<s_bind_to, s_none>>
      [] bind = "BIND_SOCKETS" -> <<s_bind_to, s_socket>>
      [] bind = "BIND_CORES" -> <<s_bind_to, s_core>>
      [] bind = "BIND_THREADS" -> <<s_bind_to, s_hwthread>>
      [] bind = "BIND_USER" -> <<>>

distribution_options_map(d) ==
    CASE d = "DISTRIBUTE_BLOCK" -> s_core
      [] d = "DISTRIBUTE_CYCLIC" -> s_numa

do_nothing == {"DISTRIBUTE_DEFAULT", "DISTRIBUTE_USER", NoneE}

\* the warning of _get_distribution_options, if any
distribution_warning(job) ==
    IF job.distribute_remote \notin do_nothing
    THEN << [level |-> "warning", msg |-> "remote distribution ignored"] >>
    ELSE <<>>

\* as get_distribution_options, but taking 0 threads for no threads in the
\* early return too
get_distribution_options_falsy(job) ==
    LET explicit == job.distribute_local # NoneE /\ job.distribute_local \notin do_nothing
        map_by == IF explicit THEN distribution_options_map(job.distribute_local)
                  ELSE s_core
    IN IF ~explicit /\ ~TruthyInt(job.cpus_per_task) THEN <<>>
       ELSE IF TruthyInt(job.cpus_per_task)
            THEN <<s_map_by, map_by \o s_PE \o str(job.cpus_per_task)>>
            ELSE <<s_map_by, map_by>>

\* as get_distribution_options, but passing a remote distribution on to mpirun
get_distribution_options_remoteFlag(job) ==
    LET explicit == job.distribute_local # NoneE /\ job.distribute_local \notin do_nothing
        map_by == IF explicit THEN distribution_options_map(job.distribute_local)
                  ELSE s_core
        remote == IF job.distribute_remote \notin do_nothing
                  THEN <<s_map_by, <<"n","o","d","e">> >> ELSE <<>>
    IN remote \o (IF ~explicit /\ job.cpus_per_task = NoneI THEN <<>>
                  ELSE IF TruthyInt(job.cpus_per_task)
                       THEN <<s_map_by, map_by \o s_PE \o str(job.cpus_per_task)>>
                       ELSE <<s_map_by, map_by>>)

get_distribution_options(job) ==
    LET explicit == job.distribute_local # NoneE /\ job.distribute_local \notin do_nothing
        map_by == IF explicit THEN distribution_options_map(job.distribute_local)
                  ELSE s_core
    IN IF ~explicit /\ job.cpus_per_task = NoneI THEN <<>>
       ELSE IF TruthyInt(job.cpus_per_task)
            THEN <<s_map_by, map_by \o s_PE \o str(job.cpus_per_task)>>
            ELSE <<s_map_by, map_by>>

\* as job_flags, but without the split: one token '-n 4'
RECURSIVE job_flags_unsplit(_, _)
job_flags_unsplit(job, options) ==
    IF options = <<>> THEN <<>>
    ELSE LET attr == Head(options)[1]
             option == Head(options)[2]
             value == job[attr]
         IN (IF value # NoneI THEN <<format(option, str(value))>> ELSE <<>>)
            \o job_flags_unsplit(job, Tail(options))

\* for attr, option in _job_options_map.items(): ... flags += option.format(value).split(" ")
RECURSIVE job_flags(_, _)
job_flags(job, options) ==
    IF options = <<>> THEN <<>>
    ELSE LET attr == Head(options)[1]
             option == Head(options)[2]
             value == job[attr]
         IN (IF value # NoneI THEN split(format(option, str(value)), " ") ELSE <<>>)
            \o job_flags(job, Tail(options))

MpirunLauncher_flags(self, job, cmd, custom_flags) ==
    self.flags
    \o job_flags(job, job_options_map)
    \o (IF job.bind # NoneE THEN bind_options_map(job.bind) ELSE <<>>)
    \o get_distribution_options(job)
    \o (IF Truthy(custom_flags) THEN custom_flags ELSE <<>>)
    \o cmd

\* if job.cpus_per_task: env_pipeline.add(EnvHandler(APPEND, OMP_NUM_THREADS, str(n)))
AddOmpNumThreads(h, ep, job) ==
    IF TruthyInt(job.cpus_per_task)
    THEN EnvPipeline_add(h, ep,
            EnvHandler("APPEND", s_OMP_NUM_THREADS, str(job.cpus_per_task)))
    ELSE h

MpirunLauncher_prepare(w, self, run_dir, job, cmd, library_paths, env_pipeline, custom_flags) ==
    LET executable == s_mpirun
        wp == WorkingPipeline(w.heap, env_pipeline)
        ep == wp.ep
        flags == MpirunLauncher_flags(self, job, cmd, custom_flags)
        h2 == AddLibraryPaths(wp.heap, ep, library_paths)
        h3 == AddOmpNumThreads(h2, ep, job)
        env == EnvPipeline_execute(h3[ep])
        h4 == NewLaunchData(h3, run_dir, <<executable>> \o flags, env)
    IN [w EXCEPT !.heap = h4, !.ld = Len(h4),
                 !.log = @ \o distribution_warning(job)]

----------------------------------------------------------------------------
(* DDTLauncher *)

\* as DDTLauncher_cmd, but with the flags behind the separator
DDTLauncher_cmd_flagsAfter(flags, cmd) == <<s_ddt>> \o <<s_dashdash>> \o flags \o cmd

\* ['ddt'] + flags + ['--'] + launch_data.cmd
DDTLauncher_cmd(flags, cmd) == <<s_ddt>> \o flags \o <<s_dashdash>> \o cmd

RECURSIVE Launcher_prepare(_, _, _, _, _, _, _, _)

\* DDTLauncher as a Launcher around a base launcher: the base launcher's
\* LaunchData gets a new cmd list assigned and is returned itself.
DDTLauncher_prepare(w, self, run_dir, job, cmd, library_paths, env_pipeline, custom_flags) ==
    LET w1 == Launcher_prepare(w, self.base_launcher, run_dir, job, cmd,
                               library_paths, env_pipeline, self.base_launcher_flags)
        launch_data == w1.ld
        flags == IF custom_flags = NoneL THEN <<>> ELSE custom_flags
        h2 == Append(w1.heap,
                     ListObj(DDTLauncher_cmd(flags, w1.heap[w1.heap[launch_data].cmd].v)))
    IN [w1 EXCEPT !.heap = [h2 EXCEPT ![launch_data].cmd = Len(h2)]]

\* DDTLauncher as a LauncherWrapper (flags are its own): a new LaunchData with
\* the decorated cmd and the env and run_dir of the one it is given.
DDTLauncher_wrap(w, self, launch_data, run_dir, cmd, library_paths, env_pipeline) ==
    LET h == w.heap
        h1 == NewLaunchData(h, h[launch_data].run_dir,
                            DDTLauncher_cmd(self.flags, h[h[launch_data].cmd].v),
                            h[h[launch_data].env].v)
    IN [w EXCEPT !.heap = h1, !.ld = Len(h1)]

Launcher_prepare(w, self, run_dir, job, cmd, library_paths, env_pipeline, custom_flags) ==
    CASE self.class_name = "DirectLauncher" ->
            DirectLauncher_prepare(w, self, run_dir, job, cmd, library_paths,
                                   env_pipeline, custom_flags)
      [] self.class_name = "MpirunLauncher" ->
            MpirunLauncher_prepare(w, self, run_dir, job, cmd, library_paths,
                                   env_pipeline, custom_flags)
      [] self.class_name = "DDTLauncher" ->
            DDTLauncher_prepare(w, self, run_dir, job, cmd, library_paths,
                                env_pipeline, custom_flags)

----------------------------------------------------------------------------
(* BashLauncher *)

Lower == {"a","b","c","d","e","f","g","h","i","j","k","l","m",
          "n","o","p","q","r","s","t","u","v","w","x","y","z"}
Upper == {"A","B","C","D","E","F","G","H","I","J","K","L","M",
          "N","O","P","Q","R","S","T","U","V","W","X","Y","Z"}
DigitChars == {"0","1","2","3","4","5","6","7","8","9"}

\* as env_name_check, but with match in place of fullmatch: a name that
\* starts like an identifier passes
env_name_check_match(key) ==
    /\ Len(key) >= 1
    /\ key[1] \in Lower \cup Upper \cup {"_"}

\* re.compile(r'[a-zA-Z_][a-zA-Z_0-9]*').fullmatch(key)
env_name_check(key) ==
    /\ Len(key) >= 1
    /\ key[1] \in Lower \cup Upper \cup {"_"}
    /\ \A i \in 2..Len(key) : key[i] \in Lower \cup Upper \cup DigitChars \cup {"_"}

\* str.replace(old, new) for a one-character old
RECURSIVE replace(_, _, _)
replace(s, old, new) ==
    IF s = <<>> THEN <<>>
    ELSE (IF Head(s) = old THEN new ELSE <<Head(s)>>) \o replace(Tail(s), old, new)

\* The grave accent U+0060 cannot be written in a string of this language: it
\* is the one character of the model that is named rather than written.
c_backtick == "GRAVE"

escaped_value(value) ==
    replace(replace(replace(value, "$", <<"\\", "$">>), "\"", <<"\\", "\"">>),
            c_backtick, <<"\\", c_backtick>>)

Hashes60 == [i \in 1..60 |-> "#"]

write_header(header) ==
    <<"\n">> \o Hashes60 \o <<"\n">> \o <<"#", " ">> \o header \o <<"\n">>
    \o Hashes60 \o <<"\n">> \o <<"\n">>

s_shebang == <<"#","!"," ","/","b","i","n","/","b","a","s","h">>
s_export == <<"e","x","p","o","r","t"," ">>
s_specify_environment ==
    <<"S","p","e","c","i","f","y"," ","e","n","v","i","r","o","n","m","e","n","t">>
s_specify_launch_command ==
    <<"S","p","e","c","i","f","y"," ","l","a","u","n","c","h"," ",
      "c","o","m","m","a","n","d">>

RECURSIVE write_exports(_)
write_exports(env) ==
    IF env = <<>> THEN <<>>
    ELSE LET key == Head(env)[1]
             value == Head(env)[2]
         IN (IF ~env_name_check(key) THEN <<>>
             ELSE s_export \o key \o <<"=", "\"">> \o escaped_value(value)
                  \o <<"\"", "\n">>)
            \o write_exports(Tail(env))

\* as write_cmd, but without the quotes
RECURSIVE write_cmd_unquoted(_)
write_cmd_unquoted(cmd) ==
    IF cmd = <<>> THEN <<>>
    ELSE Head(cmd) \o <<" ">> \o write_cmd_unquoted(Tail(cmd))

RECURSIVE write_cmd(_)
write_cmd(cmd) ==
    IF cmd = <<>> THEN <<>>
    ELSE <<"\"">> \o Head(cmd) \o <<"\"", " ">> \o write_cmd(Tail(cmd))

\* the text _write_bash_file writes for a LaunchData with these fields
write_bash_file(run_dir, cmd, env) ==
    s_shebang \o <<"\n", "\n">>
    \o write_header(s_specify_environment)
    \o write_exports(env)
    \o write_header(s_specify_launch_command)
    \o <<"c","d"," ","\"">> \o run_dir \o <<"\"">> \o <<"\n">>
    \o write_cmd(cmd)

\* the debug messages of _write_bash_file
RECURSIVE ignored_names(_)
ignored_names(env) ==
    IF env = <<>> THEN <<>>
    ELSE (IF env_name_check(Head(env)[1]) THEN <<>>
          ELSE << [level |-> "debug", msg |-> "ignore name", key |-> Head(env)[1]] >>)
         \o ignored_names(Tail(env))

\* pathlib: parent / name, for a parent without trailing slash and a relative name
PathJoin(parent, name) ==
    IF parent # <<>> /\ parent[Len(parent)] = "/" THEN parent \o name
    ELSE parent \o <<"/">> \o name

\* datetime.strftime("%Y-%m-%d:%H-%M-%S-%f")
strftime(t) ==
    Pad(str(t.year), 4) \o <<"-">> \o Pad(str(t.month), 2) \o <<"-">>
    \o Pad(str(t.day), 2) \o <<":">> \o Pad(str(t.hour), 2) \o <<"-">>
    \o Pad(str(t.minute), 2) \o <<"-">> \o Pad(str(t.second), 2) \o <<"-">>
    \o Pad(str(t.microsecond), 6)

script_name(cmd, now) ==
    LET parts == split(cmd[1], "/")
        cmd_str == parts[Len(parts)]
    IN cmd_str \o <<"_">> \o strftime(now) \o s_sh

\* as FileWrite, but leaving a file that exists as it is
FileWrite_keepExisting(fs, path, text) ==
    [p \in DOMAIN fs \cup {path} |-> IF p \in DOMAIN fs THEN fs[p] ELSE text]

\* path.open("w") and the writes that follow: the file holds text alone
FileWrite(fs, path, text) ==
    [p \in DOMAIN fs \cup {path} |-> IF p = path THEN text ELSE fs[p]]

\* as BashLauncher_wrap, but assigning the new fields on the LaunchData given
BashLauncher_wrap_inPlace(w, self, launch_data, run_dir, cmd, library_paths, env_pipeline, now) ==
    LET h == w.heap
        script_dir == PathJoin(run_dir, s_bash_scripts)
        script_path == PathJoin(script_dir, script_name(cmd, now))
        text == write_bash_file(h[launch_data].run_dir, h[h[launch_data].cmd].v,
                                h[h[launch_data].env].v)
        h1 == h \o << ListObj(<<s_bin_bash, script_path>>), DictObj(EmptyDict) >>
    IN [heap |-> [h1 EXCEPT ![launch_data].run_dir = run_dir,
                            ![launch_data].cmd = Len(h) + 1,
                            ![launch_data].env = Len(h) + 2],
        ld |-> launch_data,
        log |-> w.log \o ignored_names(h[h[launch_data].env].v),
        dirs |-> w.dirs \cup {run_dir, script_dir},
        files |-> FileWrite(w.files, script_path, text)]

\* as BashLauncher_wrap, but naming the script after launch_data.cmd[0]
BashLauncher_wrap_nameOfLaunchData(w, self, launch_data, run_dir, cmd, library_paths, env_pipeline, now) ==
    LET h1 == deepcopy(w.heap, launch_data)
        copy == Len(h1)
        script_dir == PathJoin(run_dir, s_bash_scripts)
        script_path == PathJoin(script_dir, script_name(h1[h1[copy].cmd].v, now))
        text == write_bash_file(h1[copy].run_dir, h1[h1[copy].cmd].v, h1[h1[copy].env].v)
        h2 == NewLaunchData(h1, run_dir, <<s_bin_bash, script_path>>, EmptyDict)
    IN [heap |-> h2, ld |-> Len(h2),
        log |-> w.log \o ignored_names(h1[h1[copy].env].v),
        dirs |-> w.dirs \cup {run_dir, script_dir},
        files |-> FileWrite(w.files, script_path, text)]

\* now: what datetime.datetime.now(datetime.timezone.utc) returns in this call
BashLauncher_wrap(w, self, launch_data, run_dir, cmd, library_paths, env_pipeline, now) ==
    LET h1 == deepcopy(w.heap, launch_data)
        copy == Len(h1)
        script_dir == PathJoin(run_dir, s_bash_scripts)
        script_path == PathJoin(script_dir, script_name(cmd, now))
        text == write_bash_file(h1[copy].run_dir, h1[h1[copy].cmd].v, h1[h1[copy].env].v)
        h2 == NewLaunchData(h1, run_dir, <<s_bin_bash, script_path>>, EmptyDict)
    IN [heap |-> h2, ld |-> Len(h2),
        log |-> w.log \o ignored_names(h1[h1[copy].env].v),
        dirs |-> w.dirs \cup {run_dir, script_dir},
        files |-> FileWrite(w.files, script_path, text)]

LauncherWrapper_wrap(w, self, launch_data, run_dir, cmd, library_paths, env_pipeline, now) ==
    CASE self.class_name = "DDTLauncher" ->
            DDTLauncher_wrap(w, self, launch_data, run_dir, cmd, library_paths, env_pipeline)
      [] self.class_name = "BashLauncher" ->
            BashLauncher_wrap(w, self, launch_data, run_dir, cmd, library_paths,
                              env_pipeline, now)

----------------------------------------------------------------------------
(* Serialisation: SerialisationMixin, SubclassableSerialisationMixin *)

\* Values of configurations and attributes are tagged by their Python type.
PyStr(s) == [str |-> s]
PyInt(n) == [int |-> n]
PyList(xs) == [list |-> xs]
PyDict(d) == [dict |-> d]
PyNone == [none |-> TRUE]
IsStr(v) == "str" \in DOMAIN v
IsInt(v) == "int" \in DOMAIN v
IsList(v) == "list" \in DOMAIN v
IsDict(v) == "dict" \in DOMAIN v

\* an instance: its class and the values of its fields
Obj(cls, fields) == [cls |-> cls, fields |-> fields]
IsObj(v) == "cls" \in DOMAIN v

\* the outcome of a call: the value returned or the exception raised
Ok(v) == [ok |-> v]
Raised(e) == [err |-> e]
IsOk(r) == "ok" \in DOMAIN r

Range(f) == { f[x] : x \in DOMAIN f }

CLASSNAME == "class_name"
RESERVED_NAMES == <<CLASSNAME>>

\* field declarations: the annotation and the default (Required if there is none)
Required == [required |-> TRUE]
Field(type, default) == [type |-> type, default |-> default]
T_str == [prim |-> "str"]
T_int == [prim |-> "int"]
T_ListStr == [prim |-> "List[str]"]
T_OptionalStr == [prim |-> "Optional[str]"]
T_Model(cls) == [model |-> cls]
T_ListModel(cls) == [models |-> cls]
T_Literal(s) == [literal |-> s]

Class(name, qualname, base, own) ==
    [name |-> name, qualname |-> qualname, base |-> base, own |-> own]

NoFields == [n \in {} |-> Required]

\* The class statements of the launch package and of code that uses it:
\* __name__, __qualname__, the base and the fields the class body declares.
ClassDefs ==
    [Launcher |->
        Class("Launcher", "Launcher", "SubclassableSerialisationMixin",
              [flags |-> Field(T_ListStr, PyList(<<>>))]),
     LauncherWrapper |->
        Class("LauncherWrapper", "LauncherWrapper", "SubclassableSerialisationMixin",
              [flags |-> Field(T_ListStr, PyList(<<>>))]),
     CompositeLauncher |->
        Class("CompositeLauncher", "CompositeLauncher", "Launcher",
              [base_launcher |-> Field(T_Model("Launcher"), Required),
               wrappers |-> Field(T_ListModel("LauncherWrapper"), PyList(<<>>))]),
     DirectLauncher |->
        Class("DirectLauncher", "DirectLauncher", "Launcher",
              [executable |-> Field(T_OptionalStr, PyNone)]),
     MpirunLauncher |-> Class("MpirunLauncher", "MpirunLauncher", "Launcher", NoFields),
     DDTLauncher |->
        Class("DDTLauncher", "DDTLauncher", "Launcher",
              [base_launcher |-> Field(T_Model("Launcher"), Required),
               base_launcher_flags |-> Field(T_ListStr, PyList(<<>>))]),
     BashLauncher |-> Class("BashLauncher", "BashLauncher", "LauncherWrapper", NoFields),
     \* another module defines a class DirectLauncher of its own
     PluginDirectLauncher |->
        Class("DirectLauncher", "DirectLauncher", "Launcher",
              [binary |-> Field(T_str, PyStr("exe"))]),
     \* a class BashLauncher nested in a class Plugin
     NestedBashLauncher |->
        Class("BashLauncher", "Plugin.BashLauncher", "LauncherWrapper", NoFields),
     \* classes that declare a field class_name themselves
     Named |->
        Class("Named", "Named", "SerialisationMixin",
              [class_name |-> Field(T_str, Required)]),
     NamedLauncher |->
        Class("NamedLauncher", "NamedLauncher", "Launcher",
              [class_name |-> Field(T_int, PyInt(3))])]

Classes == DOMAIN ClassDefs
Mixins == {"SerialisationMixin", "SubclassableSerialisationMixin"}

\* whether cls derives from SubclassableSerialisationMixin
RECURSIVE subclassable(_)
subclassable(cls) ==
    IF cls \in Mixins THEN cls = "SubclassableSerialisationMixin"
    ELSE subclassable(ClassDefs[cls].base)

\* the first class, from cls upwards, that has SubclassableSerialisationMixin
\* among its bases; "None" if there is none
RECURSIVE get_abstract_dataclass(_)
get_abstract_dataclass(cls) ==
    IF cls \in Mixins THEN "None"
    ELSE IF ClassDefs[cls].base = "SubclassableSerialisationMixin" THEN cls
    ELSE get_abstract_dataclass(ClassDefs[cls].base)

\* the fields pydantic collects: inherited ones, overridden by the class's own
RECURSIVE declared_fields(_)
declared_fields(cls) ==
    IF cls \in Mixins THEN NoFields
    ELSE ClassDefs[cls].own @@ declared_fields(ClassDefs[cls].base)

\* cls.model_fields after __pydantic_init_subclass__: for a class below
\* SubclassableSerialisationMixin the field class_name is Literal[cls.__name__]
model_fields(cls) ==
    IF subclassable(cls)
    THEN (CLASSNAME :> Field(T_Literal(ClassDefs[cls].name), PyStr(ClassDefs[cls].name)))
         @@ declared_fields(cls)
    ELSE declared_fields(cls)

\* the registry state of a process
Registry(d, s, a) == [defined |-> d, subclasses |-> s, adapter |-> a]
NothingDefined == Registry({}, <<>>, <<>>)

\* __pydantic_init_subclass__ of a class below SubclassableSerialisationMixin:
\* the class is entered in _subclasses under its __qualname__ and the adapter
\* of its abstract class is rebuilt from all values of _subclasses; building it
\* raises TypeError if two of them have the same class_name
pydantic_init_subclass(st, cls) ==
    LET abstract_cls == get_abstract_dataclass(cls)
        reg == (ClassDefs[cls].qualname :> cls) @@ st.subclasses
        ambiguous == \E x, y \in Range(reg) :
                        x # y /\ ClassDefs[x].name = ClassDefs[y].name
    IN IF cls = abstract_cls
       THEN [st |-> [st EXCEPT !.defined = @ \cup {cls}], raised |-> "None"]
       ELSE IF ambiguous
       THEN [st |-> [st EXCEPT !.subclasses = reg], raised |-> "TypeError"]
       ELSE [st |-> Registry(st.defined \cup {cls}, reg,
                             (abstract_cls :> Range(reg)) @@ st.adapter),
             raised |-> "None"]

\* the class statement
define_class(st, cls) ==
    IF subclassable(cls) THEN pydantic_init_subclass(st, cls)
    ELSE [st |-> [st EXCEPT !.defined = @ \cup {cls}], raised |-> "None"]

\* the exception of a failed part: an AttributeError passes through validation
Failure(results) ==
    IF \E r \in results : ~IsOk(r) /\ r.err = "AttributeError"
    THEN Raised("AttributeError") ELSE Raised("ValidationError")

RECURSIVE validate_model(_, _, _)
RECURSIVE validate_field(_, _, _)

\* handler(v): the fields of cls from the mapping v; keys that are no fields
\* are ignored
validate_fields(st, cls, v) ==
    LET F == model_fields(cls)
        r == [n \in DOMAIN F |->
                IF n \in DOMAIN v.dict THEN validate_field(st, F[n].type, v.dict[n])
                ELSE IF F[n].default = Required THEN Raised("ValidationError")
                ELSE Ok(F[n].default)]
    IN IF \A n \in DOMAIN F : IsOk(r[n])
       THEN Ok(Obj(cls, [n \in DOMAIN F |-> r[n].ok]))
       ELSE Failure({ r[n] : n \in DOMAIN F })

\* _parse_into_subclass: the abstract class hands the mapping to its
\* discriminating adapter, which chooses by class_name; any other class
\* validates its own fields
parse_into_subclass(st, cls, v) ==
    IF cls = get_abstract_dataclass(cls)
    THEN IF cls \notin DOMAIN st.adapter THEN Raised("AttributeError")
         ELSE IF CLASSNAME \notin DOMAIN v.dict \/ ~IsStr(v.dict[CLASSNAME])
         THEN Raised("ValidationError")
         ELSE LET choices == { c \in st.adapter[cls] :
                                  ClassDefs[c].name = v.dict[CLASSNAME].str }
              IN IF choices = {} THEN Raised("ValidationError")
                 ELSE validate_fields(st, CHOOSE c \in choices : TRUE, v)
    ELSE validate_fields(st, cls, v)

validate_model(st, cls, v) ==
    IF ~IsDict(v) THEN Raised("ValidationError")
    ELSE IF subclassable(cls) THEN parse_into_subclass(st, cls, v)
    ELSE validate_fields(st, cls, v)

validate_field(st, type, v) ==
    IF "model" \in DOMAIN type THEN validate_model(st, type.model, v)
    ELSE IF "models" \in DOMAIN type
    THEN IF ~IsList(v) THEN Raised("ValidationError")
         ELSE LET r == [i \in DOMAIN v.list |-> validate_model(st, type.models, v.list[i])]
              IN IF \A i \in DOMAIN r : IsOk(r[i])
                 THEN Ok(PyList([i \in DOMAIN r |-> r[i].ok]))
                 ELSE Failure(Range(r))
    ELSE IF "literal" \in DOMAIN type
    THEN IF IsStr(v) /\ v.str = type.literal THEN Ok(v) ELSE Raised("ValidationError")
    ELSE IF CASE type.prim = "str" -> IsStr(v)
              [] type.prim = "int" -> IsInt(v)
              [] type.prim = "Optional[str]" -> IsStr(v) \/ v = PyNone
              [] type.prim = "List[str]" ->
                    IsList(v) /\ \A i \in DOMAIN v.list : IsStr(v.list[i])
         THEN Ok(v) ELSE Raised("ValidationError")

\* cls.from_config(config): TypeAdapter(cls).validate_python(config)
from_config(st, cls, config) == validate_model(st, cls, config)

\* as model_dump, but dumping an instance inside as its declared type would be:
\* only the fields that type declares
RECURSIVE model_dump_declaredType(_)
model_dump_declaredType(self) ==
    LET F == model_fields(self.cls)
        as(cls, v) == LET d == model_dump_declaredType(v).dict
                      IN PyDict([n \in DOMAIN d \cap DOMAIN model_fields(cls) |-> d[n]])
        dump(n, v) == IF IsObj(v) THEN as(F[n].type.model, v)
                      ELSE IF IsList(v)
                      THEN PyList([i \in DOMAIN v.list |->
                                     IF IsObj(v.list[i]) THEN as(F[n].type.models, v.list[i])
                                     ELSE v.list[i]])
                      ELSE v
    IN PyDict([n \in { m \in DOMAIN self.fields : self.fields[m] # PyNone } |->
                 dump(n, self.fields[n])])

\* model_dump(exclude_none=True, round_trip=True): every field that is not
\* None; an instance inside is dumped as what it is
RECURSIVE model_dump(_)
model_dump(self) ==
    LET dump(v) == IF IsObj(v) THEN model_dump(v)
                   ELSE IF IsList(v)
                   THEN PyList([i \in DOMAIN v.list |->
                                  IF IsObj(v.list[i]) THEN model_dump(v.list[i])
                                  ELSE v.list[i]])
                   ELSE v
    IN PyDict([n \in { m \in DOMAIN self.fields : self.fields[m] # PyNone } |->
                 dump(self.fields[n])])

\* self.dump_config(with_class)
dump_config(self, with_class) ==
    LET config == model_dump(self).dict
    IN IF with_class THEN PyDict((CLASSNAME :> PyStr(ClassDefs[self.cls].name)) @@ config)
       ELSE PyDict([n \in DOMAIN config \ {CLASSNAME} |-> config[n]])


\* _serialize_model and the default serialisation it wraps. An object inside
\* self is named by its place: the field names and list places that lead to it
\* (id(self) in the code). recursive is the dictionary context["recursive"],
\* which every context made of info.context shares; each result carries the
\* value, the objects given to the default serialisation, in order, and the
\* dictionary as the call leaves it.
Place == <<"[0]", "[1]", "[2]", "[3]">>
RecursionError(recursive) ==
    [value |-> Raised("RecursionError"), calls |-> <<>>, recursive |-> recursive]

RECURSIVE serialize_model(_, _, _, _, _)
RECURSIVE default_handler(_, _, _, _, _)
RECURSIVE dump_fields(_, _, _, _, _, _)
RECURSIVE dump_list(_, _, _, _, _, _)

\* as _serialize_model, with one flag for all objects that is set and never
\* deleted
serialize_model_oneFlag(self, me, type, recursive, depth) ==
    IF depth = 0 THEN RecursionError(recursive)
    ELSE IF recursive # {} THEN default_handler(self, me, type, recursive, depth - 1)
    ELSE serialize_model(self, me, self.cls, {<<"recursive">>}, depth - 1)

\* the serializer of type called for the object self at place me: the first
\* call for an object registers it and calls self.model_dump, which runs the
\* serializer of the class of self; that second call finds the object
\* registered, deletes the entry and calls the default serialisation
serialize_model(self, me, type, recursive, depth) ==
    IF depth = 0 THEN RecursionError(recursive)
    ELSE IF me \in recursive THEN default_handler(self, me, type, recursive \ {me}, depth - 1)
    ELSE serialize_model(self, me, self.cls, recursive \cup {me}, depth - 1)

\* handler(self) of the code: the fields of type that are not None, each one serialised by
\* the serializer of its declared type
default_handler(self, me, type, recursive, depth) ==
    LET names == { n \in DOMAIN model_fields(type) \cap DOMAIN self.fields :
                     self.fields[n] # PyNone }
        r == dump_fields(self, me, type, names, recursive, depth)
    IN [value |-> IF r.ok THEN PyDict(r.dict) ELSE Raised("RecursionError"),
        calls |-> <<me>> \o r.calls, recursive |-> r.recursive]

dump_fields(self, me, type, names, recursive, depth) ==
    IF names = {}
    THEN [dict |-> [n \in {} |-> PyNone], calls |-> <<>>, recursive |-> recursive,
          ok |-> TRUE]
    ELSE LET n == CHOOSE x \in names : TRUE
             v == self.fields[n]
             F == model_fields(type)[n].type
             r == IF IsObj(v)
                  THEN serialize_model(v, me \o <<n>>, F.model, recursive, depth)
                  ELSE IF IsList(v)
                  THEN dump_list(v.list, me \o <<n>>, F, 1, recursive, depth)
                  ELSE [value |-> v, calls |-> <<>>, recursive |-> recursive]
             others == dump_fields(self, me, type, names \ {n}, r.recursive, depth)
         IN [dict |-> (n :> r.value) @@ others.dict, calls |-> r.calls \o others.calls,
             recursive |-> others.recursive,
             ok |-> others.ok /\ r.value # Raised("RecursionError")]

dump_list(list, me, F, i, recursive, depth) ==
    IF i > Len(list) THEN [value |-> PyList(<<>>), calls |-> <<>>, recursive |-> recursive]
    ELSE LET r == IF IsObj(list[i])
                  THEN serialize_model(list[i], me \o <<Place[i]>>, F.models, recursive,
                                       depth)
                  ELSE [value |-> list[i], calls |-> <<>>, recursive |-> recursive]
             others == dump_list(list, me, F, i + 1, r.recursive, depth)
         IN [value |-> IF r.value = Raised("RecursionError")
                          \/ others.value = Raised("RecursionError")
                       THEN Raised("RecursionError")
                       ELSE PyList(<<r.value>> \o others.value.list),
             calls |-> r.calls \o others.calls, recursive |-> others.recursive]

\* self.model_dump(exclude_none=True, round_trip=True) through the serializer
\* of the class of self, info.context being None
model_dump_context(self) == serialize_model(self, <<>>, self.cls, {}, MaxRecursion)


----------------------------------------------------------------------------
(* Inputs *)

s_r == <<"/","r">>
s_w == <<"/","w">>
s_ls == <<"l","s">>
s_l == <<"-","l">>
s_prog == <<"b","/","p">>
s_libl == <<"/","l">>
s_libm == <<"/","m">>
s_libx == <<"/","x">>
s_v == <<"-","v">>
s_c == <<"-","c">>
s_d == <<"-","d">>
s_b == <<"-","b">>
s_f == <<"-","f">>
s_A == <<"A">>
s_B == <<"B">>

RunDirs == {s_r, s_w}
Cmds == { <<s_ls, s_l>>, <<s_prog>> }
LibraryPaths == { NoneL, <<>>, <<s_libl, s_libm>> }
CustomFlags == { NoneL, <<>>, <<s_c, s_d>> }
Flags == { <<>>, <<s_v>> }

Job ==
    [tasks |-> NoneI, tasks_per_node |-> NoneI, tasks_per_socket |-> NoneI,
     nodes |-> NoneI, cpus_per_task |-> NoneI, gpus_per_task |-> NoneI,
     bind |-> NoneE, distribute_local |-> NoneE, distribute_remote |-> NoneE]

CpuBinding == {"BIND_NONE", "BIND_SOCKETS", "BIND_CORES", "BIND_THREADS", "BIND_USER"}
CpuDistribution ==
    {"DISTRIBUTE_DEFAULT", "DISTRIBUTE_BLOCK", "DISTRIBUTE_CYCLIC", "DISTRIBUTE_USER"}

\* jobs that differ in the task counts; jobs that differ in binding, local
\* distribution and threads; jobs that differ in the remote distribution
JobsTasks ==
    { [Job EXCEPT !.tasks = t, !.tasks_per_node = n, !.tasks_per_socket = s] :
        t \in {NoneI, 64}, n \in {NoneI, 0}, s \in {NoneI, 2} }
JobsBinding ==
    { [Job EXCEPT !.tasks = 4, !.bind = b, !.distribute_local = dl, !.cpus_per_task = c] :
        b \in CpuBinding \cup {NoneE}, dl \in CpuDistribution \cup {NoneE},
        c \in {NoneI, 0, 2} }
JobsRemote ==
    { [Job EXCEPT !.distribute_local = dl, !.distribute_remote = dr, !.cpus_per_task = c] :
        dl \in {NoneE, "DISTRIBUTE_CYCLIC"}, dr \in CpuDistribution, c \in {NoneI, 12} }
Jobs == JobsTasks \cup JobsBinding \cup JobsRemote
FewJobs == { Job, [Job EXCEPT !.tasks = 64, !.cpus_per_task = 2] }

\* where and what the caller launches: run_dir, job, cmd
CallSites ==
    { <<s_r, Job, <<s_ls, s_l>> >>,
      <<s_r, [Job EXCEPT !.tasks = 64, !.cpus_per_task = 2], <<s_ls, s_l>> >>,
      <<s_w, Job, <<s_prog>> >> }

DirectLaunchers ==
    { [class_name |-> "DirectLauncher", flags |-> f, executable |-> e] :
        f \in Flags, e \in {NoneS, <<>>, s_mpirun} }
MpirunLaunchers == { [class_name |-> "MpirunLauncher", flags |-> f] : f \in Flags }
BaseLaunchers ==
    { [class_name |-> "DirectLauncher", flags |-> <<s_v>>, executable |-> s_mpirun],
      [class_name |-> "DirectLauncher", flags |-> <<>>, executable |-> NoneS],
      [class_name |-> "MpirunLauncher", flags |-> <<>>] }
DDTLaunchers ==
    { [class_name |-> "DDTLauncher", flags |-> f, base_launcher |-> b,
       base_launcher_flags |-> bf] :
        f \in {<<>>, <<s_f>>}, b \in BaseLaunchers, bf \in {<<>>, <<s_b>>} }

s_OMP8 == <<"8">>
InitialPipelines ==
    { DefaultEnvPipeline,
      [DefaultEnvPipeline EXCEPT
          !.env_initial = << <<s_OMP_NUM_THREADS, s_OMP8>>, <<s_A, <<"1">> >> >>],
      [DefaultEnvPipeline EXCEPT
          !.handlers = << EnvHandler("SET", s_A, <<"5">>), EnvHandler("SET", s_B, <<"6">>),
                          EnvHandler("DELETE", s_A, NoneS) >>] }
Handlers ==
    { EnvHandler("APPEND", s_LD_LIBRARY_PATH, s_libx),
      EnvHandler("CLEAR", NoneS, NoneS) }

Wrappers ==
    { [class_name |-> "DDTLauncher", flags |-> <<>>],
      [class_name |-> "DDTLauncher", flags |-> <<s_f>>],
      [class_name |-> "BashLauncher", flags |-> <<>>] }
WrapperLists == UNION { [1..n -> Wrappers] : n \in 0..MaxWrappers }
CompositeLaunchers ==
    { [class_name |-> "CompositeLauncher", flags |-> f, base_launcher |-> b,
       wrappers |-> ws] :
        f \in Flags, ws \in WrapperLists,
        b \in { [class_name |-> "DirectLauncher", flags |-> <<s_v>>,
                 executable |-> s_mpirun],
                [class_name |-> "MpirunLauncher", flags |-> <<>>],
                [class_name |-> "DDTLauncher", flags |-> <<>>,
                 base_launcher |-> [class_name |-> "MpirunLauncher", flags |-> <<>>],
                 base_launcher_flags |-> <<s_b>>] } }

\* environments as a shell hands them on: values with characters that are
\* special between double quotes, names that are no shell identifiers
s_special == <<"$", "H", "\"", c_backtick, "a">>
s_bslash == <<"\\", "$", "x">>
BashPipelines ==
    { [DefaultEnvPipeline EXCEPT !.env_initial = << <<s_A, <<"1">> >> >>],
      [DefaultEnvPipeline EXCEPT
          !.env_initial = << <<s_B, s_special>>, << <<"f","%","%">>, <<"(",")">> >>,
                             <<s_A, <<"x"," ","y">> >> >>],
      [DefaultEnvPipeline EXCEPT
          !.env_initial = << << <<"_","a","1">>, s_bslash >> >>,
          !.handlers = << EnvHandler("SET", <<"9","k">>, <<"2">>) >>] }
BashComposites ==
    { [class_name |-> "CompositeLauncher", flags |-> <<>>, base_launcher |-> b,
       wrappers |-> ws] :
        b \in { [class_name |-> "DirectLauncher", flags |-> <<>>, executable |-> NoneS],
                [class_name |-> "MpirunLauncher", flags |-> <<>>] },
        ws \in UNION { [1..n -> { [class_name |-> "BashLauncher", flags |-> <<>>],
                                  [class_name |-> "DDTLauncher", flags |-> <<>>] }] :
                       n \in 1..MaxWrappers } }

\* the readings of the wall clock, in the order they are taken
Time(us) == [year |-> 2026, month |-> 2, day |-> 9, hour |-> 15, minute |-> 57,
             second |-> 10, microsecond |-> us]
Times == [i \in 1..MaxClock |-> Time(7 * (i - 1))]

----------------------------------------------------------------------------
(* The caller *)

\* the order in which importing the package defines its classes
PackageOrder == <<"Launcher", "LauncherWrapper", "CompositeLauncher", "BashLauncher",
                  "DDTLauncher", "DirectLauncher", "MpirunLauncher">>

RECURSIVE import(_, _)
import(st, order) ==
    IF order = <<>> THEN st
    ELSE import(define_class(st, Head(order)).st, Tail(order))

Imported == import(NothingDefined, PackageOrder)

NoCall == [op |-> "none"]

World == [heap |-> heap, log |-> <<>>, files |-> files, dirs |-> dirs, ld |-> 0]

Stage(h, ld) == [ld |-> ld, cmd |-> h[ld].cmd, env |-> h[ld].env, value |-> LDValue(h, ld)]

Init ==
    /\ pc = "idle"
    /\ heap \in { <<p>> : p \in InitialPipelines }
    /\ call = NoCall
    /\ cur = 0 /\ wi = 0 /\ result = 0 /\ again = 0
    /\ stages = <<>>
    /\ clock = 1
    /\ files = <<>> /\ dirs = {}
    /\ log = <<>>
    /\ defined = Imported.defined /\ subclasses = Imported.subclasses
    /\ adapter = Imported.adapter
    /\ last = NoCall

\* the number of handlers the caller has added to its pipeline
Added == Len(heap[1].handlers) - (IF heap[1].handlers # <<>> /\ heap[1].handlers[1].key = s_A
                                     /\ Len(heap[1].handlers) >= 3
                                     /\ heap[1].handlers[3].mode = "DELETE" THEN 3 ELSE 0)

\* env_pipeline.add(handler), by the caller between two launches
Add(handler) ==
    /\ pc = "idle"
    /\ Added < MaxHandlers
    /\ heap' = EnvPipeline_add(heap, 1, handler)
    /\ UNCHANGED <<pc, call, cur, wi, result, stages, clock, files, dirs, log, again>>
    /\ UNCHANGED rest

\* the record of a call; env_pipeline is the heap id of the pipeline passed, or None
Call(op, self, run_dir, job, cmd, library_paths, env_pipeline, custom_flags) ==
    [op |-> op, self |-> self, run_dir |-> run_dir, job |-> job, cmd |-> cmd,
     library_paths |-> library_paths, env_pipeline |-> env_pipeline,
     custom_flags |-> custom_flags, pipeline_before |-> heap[1]]

\* the caller takes the result of launcher.prepare(...)
Returned(c, w) ==
    /\ pc' = "done"
    /\ call' = c
    /\ heap' = w.heap /\ log' = w.log /\ files' = w.files /\ dirs' = w.dirs
    /\ result' = w.ld
    /\ stages' = << Stage(w.heap, w.ld) >>
    /\ UNCHANGED <<cur, wi, clock, again>>
    /\ UNCHANGED rest

DirectPrepare(self, run_dir, job, cmd, library_paths, env_pipeline, custom_flags) ==
    /\ pc = "idle"
    /\ Returned(Call("DirectLauncher.prepare", self, run_dir, job, cmd, library_paths,
                     env_pipeline, custom_flags),
                DirectLauncher_prepare(World, self, run_dir, job, cmd, library_paths,
                                       env_pipeline, custom_flags))

MpirunPrepare(self, run_dir, job, cmd, library_paths, env_pipeline, custom_flags) ==
    /\ pc = "idle"
    /\ Returned(Call("MpirunLauncher.prepare", self, run_dir, job, cmd, library_paths,
                     env_pipeline, custom_flags),
                MpirunLauncher_prepare(World, self, run_dir, job, cmd, library_paths,
                                       env_pipeline, custom_flags))

DDTPrepare(self, run_dir, job, cmd, library_paths, env_pipeline, custom_flags) ==
    /\ pc = "idle"
    /\ Returned(Call("DDTLauncher.prepare", self, run_dir, job, cmd, library_paths,
                     env_pipeline, custom_flags),
                DDTLauncher_prepare(World, self, run_dir, job, cmd, library_paths,
                                    env_pipeline, custom_flags))

\* the caller calls prepare a second time, with the same arguments
Repeat ==
    /\ pc = "done" /\ again = 0
    /\ call.op \in {"DirectLauncher.prepare", "MpirunLauncher.prepare"}
    /\ call.env_pipeline # NoneRef
    /\ LET w == Launcher_prepare([World EXCEPT !.log = log], call.self, call.run_dir,
                                 call.job, call.cmd, call.library_paths,
                                 call.env_pipeline, call.custom_flags)
       IN /\ heap' = w.heap /\ log' = w.log /\ again' = w.ld
    /\ UNCHANGED <<pc, call, cur, wi, result, stages, clock, files, dirs>>
    /\ UNCHANGED rest

\* the caller drops the result; the objects of the call are gone
Return ==
    /\ pc = "done"
    /\ pc' = "idle"
    /\ heap' = << heap[1] >>
    /\ call' = NoCall
    /\ cur' = 0 /\ wi' = 0 /\ result' = 0 /\ again' = 0
    /\ stages' = <<>>
    /\ clock' = 1
    /\ files' = <<>> /\ dirs' = {}
    /\ log' = <<>>
    /\ UNCHANGED rest

----------------------------------------------------------------------------
(* CompositeLauncher.prepare, statement by statement *)

\* as CompositeLauncher_base, but handing custom_flags on to the base launcher
CompositeLauncher_base_customFlags(w, self, run_dir, job, cmd, library_paths, env_pipeline, custom_flags) ==
    Launcher_prepare(w, self.base_launcher, run_dir, job, cmd, library_paths,
                     env_pipeline, custom_flags)

\* launch_data = self.base_launcher.prepare(run_dir, job, cmd, library_paths,
\*                                          env_pipeline, self.flags)
CompositeLauncher_base(w, self, run_dir, job, cmd, library_paths, env_pipeline, custom_flags) ==
    Launcher_prepare(w, self.base_launcher, run_dir, job, cmd, library_paths,
                     env_pipeline, self.flags)

\* one turn of: for wrapper in self.wrappers: launch_data = wrapper.wrap(...)
CompositeLauncher_step(w, self, i, launch_data, run_dir, cmd, library_paths, env_pipeline, now) ==
    LauncherWrapper_wrap(w, self.wrappers[i], launch_data, run_dir, cmd, library_paths,
                         env_pipeline, now)

CompositeBegin(self, run_dir, job, cmd, library_paths, env_pipeline, custom_flags) ==
    /\ pc = "idle"
    /\ LET w == CompositeLauncher_base(World, self, run_dir, job, cmd, library_paths,
                                       env_pipeline, custom_flags)
       IN /\ heap' = w.heap /\ log' = w.log /\ files' = w.files /\ dirs' = w.dirs
          /\ cur' = w.ld
          /\ stages' = << Stage(w.heap, w.ld) >>
    /\ call' = Call("CompositeLauncher.prepare", self, run_dir, job, cmd, library_paths,
                    env_pipeline, custom_flags)
    /\ pc' = "wrap"
    /\ wi' = 1
    /\ UNCHANGED <<result, clock, again>>
    /\ UNCHANGED rest

CompositeWrap ==
    /\ pc = "wrap"
    /\ wi <= Len(call.self.wrappers)
    /\ LET w == CompositeLauncher_step([World EXCEPT !.log = log], call.self, wi, cur,
                                       call.run_dir, call.cmd, call.library_paths,
                                       call.env_pipeline, Times[clock])
       IN /\ heap' = w.heap /\ log' = w.log /\ files' = w.files /\ dirs' = w.dirs
          /\ cur' = w.ld
          /\ stages' = Append(stages, [Stage(w.heap, w.ld) EXCEPT !.ld = w.ld]
                                       @@ [now |-> Times[clock], input |-> cur])
    /\ wi' = wi + 1
    /\ UNCHANGED <<pc, call, result, clock, again>>
    /\ UNCHANGED rest

CompositeReturn ==
    /\ pc = "wrap"
    /\ wi > Len(call.self.wrappers)
    /\ result' = cur
    /\ pc' = "done"
    /\ UNCHANGED <<heap, call, cur, wi, stages, clock, files, dirs, log, again>>
    /\ UNCHANGED rest

\* time passes before a BashLauncher reads the clock
Tick ==
    /\ pc = "wrap"
    /\ wi <= Len(call.self.wrappers)
    /\ call.self.wrappers[wi].class_name = "BashLauncher"
    /\ clock < MaxClock
    /\ clock' = clock + 1
    /\ UNCHANGED <<pc, heap, call, cur, wi, result, stages, files, dirs, log, again>>
    /\ UNCHANGED rest

----------------------------------------------------------------------------
(* Specifications *)

DirectCalls ==
    \E self \in DirectLaunchers, site \in CallSites, library_paths \in LibraryPaths,
       env_pipeline \in {NoneRef, 1}, custom_flags \in CustomFlags :
         DirectPrepare(self, site[1], site[2], site[3], library_paths, env_pipeline,
                       custom_flags)

MpirunCalls ==
    \E self \in MpirunLaunchers, job \in Jobs,
       library_paths \in {NoneL, <<s_libl, s_libm>>}, env_pipeline \in {NoneRef, 1},
       custom_flags \in {NoneL, <<s_c, s_d>>} :
         /\ (self.flags = <<>>) = (custom_flags = NoneL)
         /\ MpirunPrepare(self, s_r, job, <<s_prog>>, library_paths, env_pipeline,
                          custom_flags)

DDTCalls ==
    \E self \in DDTLaunchers, site \in CallSites,
       library_paths \in {NoneL, <<s_libl, s_libm>>}, custom_flags \in CustomFlags :
         DDTPrepare(self, site[1], site[2], site[3], library_paths,
                    IF library_paths = NoneL THEN NoneRef ELSE 1, custom_flags)

CompositeCalls ==
    \E self \in CompositeLaunchers,
       site \in { c \in CallSites : c[1] = s_w \/ c[2] # Job },
       library_paths \in {NoneL, <<s_libl, s_libm>>},
       custom_flags \in {NoneL, <<s_c, s_d>>} :
         CompositeBegin(self, site[1], site[2], site[3], library_paths,
                        IF library_paths = NoneL THEN NoneRef ELSE 1, custom_flags)

\* DDTLauncher and CompositeLauncher
Next ==
    \/ DDTCalls
    \/ CompositeCalls
    \/ CompositeWrap
    \/ CompositeReturn
    \/ Tick
    \/ Return

Spec == Init /\ [][Next]_vars

\* DirectLauncher and MpirunLauncher, with a caller that changes its pipeline
\* between launches
NextPrepare ==
    \/ \E handler \in Handlers : Add(handler)
    \/ DirectCalls
    \/ MpirunCalls
    \/ Repeat
    \/ Return

SpecPrepare == Init /\ [][NextPrepare]_vars

\* DirectLauncher, with a caller that changes its pipeline between launches
NextDirect ==
    \/ \E handler \in Handlers : Add(handler)
    \/ DirectCalls
    \/ Repeat
    \/ Return

SpecDirect == Init /\ [][NextDirect]_vars

\* MpirunLauncher, with a caller that changes its pipeline between launches
NextMpirun ==
    \/ \E handler \in Handlers : Add(handler)
    \/ MpirunCalls
    \/ Repeat
    \/ Return

SpecMpirun == Init /\ [][NextMpirun]_vars

\* chains that end in scripts, started from environments a shell hands on
InitBash ==
    /\ pc = "idle"
    /\ heap \in { <<p>> : p \in BashPipelines }
    /\ call = NoCall
    /\ cur = 0 /\ wi = 0 /\ result = 0 /\ again = 0
    /\ stages = <<>>
    /\ clock = 1
    /\ files = <<>> /\ dirs = {}
    /\ log = <<>>
    /\ defined = Imported.defined /\ subclasses = Imported.subclasses
    /\ adapter = Imported.adapter
    /\ last = NoCall

BashCalls ==
    \E self \in BashComposites, site \in CallSites :
        CompositeBegin(self, site[1], site[2], site[3], NoneL, 1, NoneL)

NextBash ==
    \/ BashCalls
    \/ CompositeWrap
    \/ CompositeReturn
    \/ Tick
    \/ Return

SpecBash == InitBash /\ [][NextBash]_vars

----------------------------------------------------------------------------
(* Class definitions and configurations in one process *)

DirectObj(flags, executable) ==
    Obj("DirectLauncher", [class_name |-> PyStr("DirectLauncher"), flags |-> PyList(flags),
                           executable |-> executable])
MpirunObj(flags) ==
    Obj("MpirunLauncher", [class_name |-> PyStr("MpirunLauncher"), flags |-> PyList(flags)])
BashObj(flags) ==
    Obj("BashLauncher", [class_name |-> PyStr("BashLauncher"), flags |-> PyList(flags)])
DDTObj(flags, base_launcher, base_launcher_flags) ==
    Obj("DDTLauncher", [class_name |-> PyStr("DDTLauncher"), flags |-> PyList(flags),
                        base_launcher |-> base_launcher,
                        base_launcher_flags |-> PyList(base_launcher_flags)])
CompositeObj(base_launcher, wrappers) ==
    Obj("CompositeLauncher", [class_name |-> PyStr("CompositeLauncher"), flags |-> PyList(<<>>),
                              base_launcher |-> base_launcher, wrappers |-> PyList(wrappers)])

\* launchers as the tests build them, nested ones included
LauncherInstances ==
    { DirectObj(<<PyStr("-v")>>, PyNone),
      DirectObj(<<>>, PyStr("exe")),
      MpirunObj(<<PyStr("-n")>>),
      BashObj(<<>>),
      DDTObj(<<>>, MpirunObj(<<>>), <<PyStr("-b")>>),
      CompositeObj(DirectObj(<<>>, PyNone), <<BashObj(<<>>)>>),
      CompositeObj(CompositeObj(MpirunObj(<<>>), <<>>), <<BashObj(<<PyStr("-x")>>)>>) }

OtherInstances ==
    { Obj("Named", [class_name |-> PyStr("x")]) }

Instances == LauncherInstances \cup OtherInstances

\* the classes an instance is built from
RECURSIVE ClassesOf(_)
ClassesOf(x) ==
    {x.cls} \cup UNION { IF IsObj(x.fields[n]) THEN ClassesOf(x.fields[n])
                         ELSE IF IsList(x.fields[n])
                         THEN UNION { IF IsObj(x.fields[n].list[i])
                                      THEN ClassesOf(x.fields[n].list[i]) ELSE {}
                                      : i \in DOMAIN x.fields[n].list }
                         ELSE {} : n \in DOMAIN x.fields }

\* mappings handed to from_config
Configs ==
    { PyDict(<<>>),
      PyDict([flags |-> PyList(<<PyStr("-v")>>)]),
      PyDict([class_name |-> PyStr("DirectLauncher"), flags |-> PyList(<<PyStr("-v")>>)]),
      PyDict([class_name |-> PyStr("DirectLauncher"), flags |-> PyStr("-v")]),
      PyDict([class_name |-> PyStr("BashLauncher")]),
      PyDict([class_name |-> PyStr("NoSuchLauncher")]),
      PyDict([class_name |-> PyStr("NamedLauncher")]),
      PyDict([class_name |-> PyInt(3)]),
      PyDict([class_name |-> PyStr("x")]),
      PyDict([class_name |-> PyStr("CompositeLauncher"),
              base_launcher |-> PyDict([class_name |-> PyStr("MpirunLauncher")])]) }

\* a process in which nothing has been imported yet
InitSerial ==
    /\ pc = "idle"
    /\ heap = <<DefaultEnvPipeline>>
    /\ call = NoCall
    /\ cur = 0 /\ wi = 0 /\ result = 0 /\ again = 0
    /\ stages = <<>>
    /\ clock = 1
    /\ files = <<>> /\ dirs = {}
    /\ log = <<>>
    /\ defined = {} /\ subclasses = <<>> /\ adapter = <<>>
    /\ last = NoCall

\* the class statement of cls, once its base exists; the package's own classes
\* are defined in the order of its import, and a class of other code that derives
\* from Launcher or LauncherWrapper after the module that holds these
Define(cls) ==
    /\ cls \notin defined
    /\ ClassDefs[cls].base \in defined \cup Mixins
    /\ \A i \in DOMAIN PackageOrder :
          PackageOrder[i] = cls => \A j \in 1..(i - 1) : PackageOrder[j] \in defined
    /\ (subclassable(cls) /\ cls \notin Range(PackageOrder))
          => {PackageOrder[1], PackageOrder[2], PackageOrder[3]} \subseteq defined
    /\ LET r == define_class(Registry(defined, subclasses, adapter), cls)
       IN /\ defined' = r.st.defined
          /\ subclasses' = r.st.subclasses
          /\ adapter' = r.st.adapter
          /\ last' = [op |-> "class", cls |-> cls, raised |-> r.raised]
    /\ UNCHANGED launch

\* cls.from_config(config)
FromConfig(cls, config) ==
    /\ cls \in defined
    /\ last' = [op |-> "from_config", cls |-> cls, config |-> config,
                out |-> from_config(Registry(defined, subclasses, adapter), cls, config)]
    /\ UNCHANGED <<defined, subclasses, adapter>>
    /\ UNCHANGED launch

\* type(self).from_config(self.dump_config(with_class))
RoundTrip(self, with_class) ==
    /\ ClassesOf(self) \subseteq defined
    /\ LET config == dump_config(self, with_class)
       IN last' = [op |-> "round_trip", self |-> self, with_class |-> with_class,
                   config |-> config,
                   out |-> from_config(Registry(defined, subclasses, adapter),
                                       self.cls, config)]
    /\ UNCHANGED <<defined, subclasses, adapter>>
    /\ UNCHANGED launch

NextSerial ==
    \/ \E cls \in Classes : Define(cls)
    \/ \E cls \in Classes, config \in Configs : FromConfig(cls, config)
    \/ \E self \in Instances, with_class \in BOOLEAN : RoundTrip(self, with_class)

SpecSerial == InitSerial /\ [][NextSerial]_vars

----------------------------------------------------------------------------
(* What the claims are stated about *)

Unset(x) == x = NoneS \/ x = NoneL \/ x = <<>>
OrEmpty(list) == IF list = NoneL THEN <<>> ELSE list

DirectDone == pc = "done" /\ call.op = "DirectLauncher.prepare"
MpirunDone == pc = "done" /\ call.op = "MpirunLauncher.prepare"
DDTDone == pc = "done" /\ call.op = "DDTLauncher.prepare"
CompositeDone == pc = "done" /\ call.op = "CompositeLauncher.prepare"

Result == LDValue(heap, result)

\* the pipeline the call was given: the caller's, or a fresh default one
GivenPipeline ==
    IF call.env_pipeline = NoneRef THEN DefaultEnvPipeline ELSE call.pipeline_before

----------------------------------------------------------------------------
(* C3 *)

----------------------------------------------------------------------------
(* C4 *)

LibraryPathHandlers(library_paths) ==
    [i \in 1..Len(OrEmpty(library_paths)) |->
        EnvHandler("APPEND", s_LD_LIBRARY_PATH, library_paths[i])]

\* C4: the env DirectLauncher.prepare returns is what the given pipeline (or a
\* fresh default one) yields once one APPEND handler on LD_LIBRARY_PATH per
\* library path has been put after its own handlers, in list order; with no
\* library paths it is what the given pipeline yields.
C4_DirectEnv ==
    DirectDone =>
        /\ Result.env =
              AsMap(ApplyHandlers(
                  GivenPipeline.handlers \o LibraryPathHandlers(call.library_paths),
                  GivenPipeline.env_initial))
        /\ Unset(call.library_paths) =>
              Result.env = AsMap(EnvPipeline_execute(GivenPipeline))

\* two library paths behind a pipeline that already sets LD_LIBRARY_PATH
C4_Witness ==
    /\ DirectDone
    /\ call.env_pipeline # NoneRef
    /\ call.library_paths = <<s_libl, s_libm>>
    /\ s_LD_LIBRARY_PATH \in DOMAIN Result.env
    /\ Result.env[s_LD_LIBRARY_PATH] = s_libx \o <<":">> \o s_libl \o <<":">> \o s_libm

----------------------------------------------------------------------------
(* C5 *)

\* C5: DirectLauncher.prepare and MpirunLauncher.prepare leave the caller's
\* pipeline as it was (handlers and what it yields), so the same call made a
\* second time returns the same env.
C5_PipelineUntouched ==
    (pc = "done" /\ call.op \in {"DirectLauncher.prepare", "MpirunLauncher.prepare"}) =>
        /\ heap[1] = call.pipeline_before
        /\ EnvPipeline_execute(heap[1]) = EnvPipeline_execute(call.pipeline_before)
        /\ again # 0 => LDValue(heap, again).env = Result.env

\* a second MpirunLauncher.prepare with library paths and threads
C5_Witness ==
    /\ MpirunDone
    /\ again # 0
    /\ call.env_pipeline = 1
    /\ Truthy(call.library_paths)
    /\ call.job.cpus_per_task = 2
    /\ s_LD_LIBRARY_PATH \in DOMAIN Result.env

----------------------------------------------------------------------------
(* C6 *)

\* the decimal numerals of the numbers the jobs of the model use
Decimal(n) ==
    CASE n = 0 -> <<"0">>
      [] n = 2 -> <<"2">>
      [] n = 4 -> <<"4">>
      [] n = 12 -> <<"1","2">>
      [] n = 64 -> <<"6","4">>

TaskTokens(value, flag) == IF value = NoneI THEN <<>> ELSE <<flag, Decimal(value)>>

BindTokens(bind) ==
    CASE bind = "BIND_NONE" -> << <<"-","-","b","i","n","d","-","t","o">>, <<"n","o","n","e">> >>
      [] bind = "BIND_SOCKETS" ->
            << <<"-","-","b","i","n","d","-","t","o">>, <<"s","o","c","k","e","t">> >>
      [] bind = "BIND_CORES" -> << <<"-","-","b","i","n","d","-","t","o">>, <<"c","o","r","e">> >>
      [] bind = "BIND_THREADS" ->
            << <<"-","-","b","i","n","d","-","t","o">>, <<"h","w","t","h","r","e","a","d">> >>
      [] OTHER -> <<>>

\* C6: MpirunLauncher.prepare returns cmd = ['mpirun'] + flags + T + B + D +
\* custom_flags + cmd: T has, for each of tasks, tasks_per_node, tasks_per_socket
\* that is set and in this order, the tokens '-n' / '--npernode' / '--npersocket'
\* and the decimal value; B is '--bind-to' with none, socket, core, hwthread for
\* NONE, SOCKETS, CORES, THREADS and empty for USER or unset; D is the map-by
\* flags; a job with no field set adds no token.
C6_MpirunCmd ==
    MpirunDone =>
        /\ Result.cmd =
              << <<"m","p","i","r","u","n">> >> \o call.self.flags
              \o TaskTokens(call.job.tasks, <<"-","n">>)
              \o TaskTokens(call.job.tasks_per_node, <<"-","-","n","p","e","r","n","o","d","e">>)
              \o TaskTokens(call.job.tasks_per_socket,
                            <<"-","-","n","p","e","r","s","o","c","k","e","t">>)
              \o BindTokens(call.job.bind)
              \o get_distribution_options(call.job)
              \o OrEmpty(call.custom_flags) \o call.cmd
        /\ call.job = Job =>
              Result.cmd = << <<"m","p","i","r","u","n">> >> \o call.self.flags
                           \o OrEmpty(call.custom_flags) \o call.cmd

\* all three task counts set, one of them 0
C6_Witness ==
    /\ MpirunDone
    /\ call.job.tasks = 64 /\ call.job.tasks_per_node = 0 /\ call.job.tasks_per_socket = 2
    /\ call.self.flags # <<>>
    /\ SubSeq(Result.cmd, 3, 8) =
          << <<"-","n">>, <<"6","4">>, <<"-","-","n","p","e","r","n","o","d","e">>, <<"0">>,
             <<"-","-","n","p","e","r","s","o","c","k","e","t">>, <<"2">> >>

----------------------------------------------------------------------------
(* C7 *)

\* where '--map-by' stands in the returned cmd
MapByAt == { i \in DOMAIN Result.cmd : Result.cmd[i] = <<"-","-","m","a","p","-","b","y">> }

Mapping(job) ==
    IF job.distribute_local = "DISTRIBUTE_CYCLIC" THEN <<"n","u","m","a">>
    ELSE <<"c","o","r","e">>

MapByExpected(job) ==
    job.distribute_local \in {"DISTRIBUTE_BLOCK", "DISTRIBUTE_CYCLIC"}
    \/ job.cpus_per_task # NoneI

\* C7 as claimed: BLOCK maps by core, CYCLIC by numa; with distribute_local
\* unset, DEFAULT or USER the mapping is core if cpus_per_task is set and no flag
\* is emitted if it is unset; an emitted flag has the value '<mapping>:PE=n'
\* whenever cpus_per_task = n is set, else '<mapping>'; at most one flag.
C7_Original ==
    MpirunDone =>
        /\ Cardinality(MapByAt) = (IF MapByExpected(call.job) THEN 1 ELSE 0)
        /\ \A i \in MapByAt :
              Result.cmd[i + 1] =
                 IF call.job.cpus_per_task # NoneI
                 THEN Mapping(call.job) \o <<":","P","E","=">> \o Decimal(call.job.cpus_per_task)
                 ELSE Mapping(call.job)

\* C7 (amended): as claimed, except that the value is '<mapping>:PE=n' only
\* when cpus_per_task = n is set and not 0; with cpus_per_task unset or 0 it is
\* '<mapping>'.
C7_MapBy ==
    MpirunDone =>
        /\ Cardinality(MapByAt) = (IF MapByExpected(call.job) THEN 1 ELSE 0)
        /\ \A i \in MapByAt :
              Result.cmd[i + 1] =
                 IF call.job.cpus_per_task # NoneI /\ call.job.cpus_per_task # 0
                 THEN Mapping(call.job) \o <<":","P","E","=">> \o Decimal(call.job.cpus_per_task)
                 ELSE Mapping(call.job)

\* no local distribution asked for, 0 threads: '--map-by core'
C7_Witness ==
    /\ MpirunDone
    /\ call.job.distribute_local = NoneE
    /\ call.job.cpus_per_task = 0
    /\ \E i \in MapByAt : Result.cmd[i + 1] = <<"c","o","r","e">>

----------------------------------------------------------------------------
(* C8 *)

\* C8 as claimed: with cpus_per_task = n set, whatever the pipeline given (also
\* one that already yields OMP_NUM_THREADS), the returned env has
\* OMP_NUM_THREADS = the decimal numeral of n; without cpus_per_task the
\* launcher adds nothing for OMP_NUM_THREADS.  (Stated for n >= 1; n = 0 is
\* left open here.)
C8_Original ==
    MpirunDone =>
        LET without == AsMap(ApplyHandlers(
                          GivenPipeline.handlers \o LibraryPathHandlers(call.library_paths),
                          GivenPipeline.env_initial))
        IN /\ (call.job.cpus_per_task # NoneI /\ call.job.cpus_per_task >= 1) =>
                /\ s_OMP_NUM_THREADS \in DOMAIN Result.env
                /\ Result.env[s_OMP_NUM_THREADS] = Decimal(call.job.cpus_per_task)
           /\ call.job.cpus_per_task = NoneI => Result.env = without

----------------------------------------------------------------------------
(* C1 *)

\* base_launcher.prepare(...) and then wrapper.wrap(...) for each wrapper in
\* turn, as a caller would chain them by hand; the k-th wrapper reads the clock
\* as it did in the call
RECURSIVE ManualChain(_, _, _)
ManualChain(w, wrappers, k) ==
    IF wrappers = <<>> THEN w
    ELSE ManualChain(
            LauncherWrapper_wrap(w, Head(wrappers), w.ld, call.run_dir, call.cmd,
                                 call.library_paths, call.env_pipeline, stages[k + 1].now),
            Tail(wrappers), k + 1)

Manual ==
    ManualChain(
        Launcher_prepare([heap |-> <<call.pipeline_before>>, log |-> <<>>,
                          files |-> <<>>, dirs |-> {}, ld |-> 0],
                         call.self.base_launcher, call.run_dir, call.job, call.cmd,
                         call.library_paths, call.env_pipeline, call.self.flags),
        call.self.wrappers, 1)

----------------------------------------------------------------------------
(* C2 *)

EndsWith(s, t) == Len(s) >= Len(t) /\ SubSeq(s, Len(s) - Len(t) + 1, Len(s)) = t

\* C2 as claimed, for a CompositeLauncher whose wrappers do not put the command
\* into a script: with non-empty custom_flags, the returned argv has the
\* custom_flags as one block, in their order, immediately before cmd.
C2_Original ==
    (/\ CompositeDone
     /\ Truthy(call.custom_flags)
     /\ \A i \in DOMAIN call.self.wrappers :
           call.self.wrappers[i].class_name # "BashLauncher")
    => EndsWith(Result.cmd, call.custom_flags \o call.cmd)

----------------------------------------------------------------------------
(* C9 *)

InComposite == pc \in {"wrap", "done"} /\ call.op = "CompositeLauncher.prepare"

\* the stages a DDTLauncher made as a wrapper
DDTStages ==
    { k \in 2..Len(stages) : call.self.wrappers[k - 1].class_name = "DDTLauncher" }

----------------------------------------------------------------------------
(* C10 *)

----------------------------------------------------------------------------
(* C11 *)

\* the stages a BashLauncher made
BashStages ==
    { k \in 2..Len(stages) : call.self.wrappers[k - 1].class_name = "BashLauncher" }

\* what follows the last '/' of a path, the whole of it if there is none
LastComponent(path) ==
    LET n == CHOOSE n \in 0..Len(path) :
                /\ \A i \in (Len(path) - n + 1)..Len(path) : path[i] # "/"
                /\ n < Len(path) => path[Len(path) - n] = "/"
    IN SubSeq(path, Len(path) - n + 1, Len(path))

\* the six digits of a number of microseconds
Micro(us) ==
    [i \in 1..6 |->
        CHOOSE d \in DigitChars :
            \E v \in 0..9 : v = (us \div (10 ^ (6 - i))) % 10 /\ d = Digits[v + 1]]

\* the UTC timestamp of a clock reading of the model, 2026-02-09 15:57:10
Stamp(t) ==
    <<"2","0","2","6","-","0","2","-","0","9",":","1","5","-","5","7","-","1","0","-">>
    \o Micro(t.microsecond)

\* C11: BashLauncher.wrap returns run_dir = the run_dir argument, an empty env
\* and cmd = ['/bin/bash', p] of two elements, p being the file
\* run_dir/bash_scripts/<last path component of cmd[0]>_<UTC timestamp>.sh,
\* which exists after the call; the name comes from the cmd argument, not from
\* launch_data.cmd.
C11_BashWrap ==
    InComposite =>
        \A k \in BashStages :
            LET v == stages[k].value
                p == call.run_dir \o <<"/","b","a","s","h","_","s","c","r","i","p","t","s","/">>
                     \o LastComponent(call.cmd[1]) \o <<"_">> \o Stamp(stages[k].now)
                     \o <<".","s","h">>
            IN /\ v.run_dir = call.run_dir
               /\ v.env = <<>>
               /\ v.cmd = << <<"/","b","i","n","/","b","a","s","h">>, p >>
               /\ p \in DOMAIN files
               /\ \A i \in DOMAIN LastComponent(call.cmd[1]) :
                     LastComponent(call.cmd[1])[i] # "/"

\* the script of 'b/p' is named p_..., though launch_data.cmd starts with mpirun
C11_Witness ==
    /\ InComposite
    /\ 2 \in BashStages
    /\ call.cmd[1] = <<"b","/","p">>
    /\ stages[1].value.cmd[1] = s_mpirun
    /\ stages[2].now.microsecond = 7
    /\ stages[2].value.cmd[2] =
          <<"/","w","/","b","a","s","h","_","s","c","r","i","p","t","s","/","p","_",
            "2","0","2","6","-","0","2","-","0","9",":","1","5","-","5","7","-","1","0","-",
            "0","0","0","0","0","7",".","s","h">>

----------------------------------------------------------------------------
(* C12 *)

\* the stage made last is a BashLauncher's: its script is the file just written
LastIsBash == InComposite /\ Len(stages) \in BashStages

ScriptInput == stages[Len(stages) - 1].value
ScriptLines == split(files[stages[Len(stages)].value.cmd[2]], "\n")

StartsWith(s, t) == Len(s) >= Len(t) /\ SubSeq(s, 1, Len(t)) = t

ExportLines ==
    { ScriptLines[i] : i \in { j \in DOMAIN ScriptLines :
                                  StartsWith(ScriptLines[j], <<"e","x","p","o","r","t">>) } }

\* a shell identifier: letters, digits and '_', not starting with a digit
Identifier(key) ==
    /\ key # <<>>
    /\ \A i \in DOMAIN key : key[i] \in Lower \cup Upper \cup DigitChars \cup {"_"}
    /\ key[1] \notin DigitChars

\* v with a backslash put before every '$', '"' and grave accent
Escaped(v) ==
    Concat([i \in DOMAIN v |->
               IF v[i] \in {"$", "\"", c_backtick} THEN <<"\\", v[i]>> ELSE <<v[i]>>])

ExportLine(key, value) ==
    <<"e","x","p","o","r","t"," ">> \o key \o <<"=", "\"">> \o value \o <<"\"">>

Quoted(cmd) == Concat([i \in DOMAIN cmd |-> <<"\"">> \o cmd[i] \o <<"\"", " ">>])

\* the first line is the shebang; the last two lines are the cd into the run
\* directory of the LaunchData and its cmd, every argument in double quotes
ScriptFrame ==
    /\ ScriptLines[1] = <<"#","!"," ","/","b","i","n","/","b","a","s","h">>
    /\ Len(ScriptLines) >= 3
    /\ ScriptLines[Len(ScriptLines) - 1] =
          <<"c","d"," ","\"">> \o ScriptInput.run_dir \o <<"\"">>
    /\ ScriptLines[Len(ScriptLines)] = Quoted(ScriptInput.cmd)

----------------------------------------------------------------------------
(* A pipeline on its own: handlers added one by one, executed in between *)

s_k == <<"K">>
s_v0 == <<"v","0">>
s_v1 == <<"v","1">>
s_v2 == <<"v","2">>

EnvInitials == { EmptyDict, << <<s_k, <<>> >> >>, << <<s_k, s_v0>>, <<s_A, <<"1">> >> >> }

EnvHandlers ==
    { EnvHandler("SET", s_k, s_v1), EnvHandler("APPEND", s_k, s_v2),
      EnvHandler("DELETE", s_k, NoneS), EnvHandler("SET", s_A, <<"5">>) }

InitEnv ==
    /\ pc = "idle"
    /\ heap \in { << [DefaultEnvPipeline EXCEPT !.env_initial = e] >> : e \in EnvInitials }
    /\ call = NoCall
    /\ cur = 0 /\ wi = 0 /\ result = 0 /\ again = 0
    /\ stages = <<>>
    /\ clock = 1
    /\ files = <<>> /\ dirs = {}
    /\ log = <<>>
    /\ defined = Imported.defined /\ subclasses = Imported.subclasses
    /\ adapter = Imported.adapter
    /\ last = NoCall

\* env_pipeline.add(handler)
AddHandler(handler) ==
    /\ Len(heap[1].handlers) < MaxPipeline
    /\ heap' = EnvPipeline_add(heap, 1, handler)
    /\ UNCHANGED <<pc, call, cur, wi, result, stages, clock, files, dirs, log, again>>
    /\ UNCHANGED rest

\* env_pipeline.execute()
Execute ==
    /\ last' = [op |-> "execute", handlers |-> heap[1].handlers,
                env_initial |-> heap[1].env_initial, env |-> EnvPipeline_execute(heap[1])]
    /\ UNCHANGED <<defined, subclasses, adapter>>
    /\ UNCHANGED launch

NextEnv ==
    \/ \E handler \in EnvHandlers : AddHandler(handler)
    \/ Execute

SpecEnv == InitEnv /\ [][NextEnv]_vars

----------------------------------------------------------------------------
(* DefaultBenchmark.run *)

\* the result of arch.process_job(job)
ArchResult(default_launcher, default_launcher_flags, env_handlers) ==
    [default_launcher |-> default_launcher, default_launcher_flags |-> default_launcher_flags,
     env_handlers |-> env_handlers]

\* the handlers of one part of a setup, by the part and their place in its list
HandlerNames(part, n) == [i \in 1..n |-> <<part, i>>]

\* arch arguments: None, or an Arch by the result of its process_job
Archs == { PyNone } \cup { ArchResult(l, f, e) : l \in {"None", "_DummyLauncher"},
                                                 f \in {NoneL, <<s_f>>},
                                                 e \in {<<>>, HandlerNames("arch", 1)} }
RunLaunchers == { "None", "_DummyLauncher" }
RunFlags == { NoneL, <<s_v>> }

\* a benchmark by the number of handlers of its parts: the science setup has
\* setup[1] runtime data handlers and as many env handlers, the tech setup
\* setup[2] of each (NoneI: no tech setup), the application gives setup[3] of
\* each, and setup[4] says that the tech setup has an application of its own
DataSetups ==
    { <<sc, te, ap, FALSE>> : sc \in 0..MaxData, te \in NoneI..MaxData, ap \in 0..MaxData }
    \cup { <<sc, te, ap, TRUE>> : sc \in {MaxData}, te \in 0..MaxData, ap \in {MaxData} }

\* application = self.science.application, or that of the tech setup
application(setup) ==
    IF setup[2] # NoneI /\ setup[4] THEN "tech.application" ELSE "science.application"

\* data_handlers: a copy of the science list, extended by the tech list and
\* by the data handlers of the application
data_handlers(setup) ==
    HandlerNames("science", setup[1])
    \o (IF setup[2] # NoneI THEN HandlerNames("tech", setup[2]) ELSE <<>>)
    \o HandlerNames(application(setup), setup[3])

\* as env_pipeline, with the handlers of the tech setup first
env_pipeline_techFirst(setup) ==
    (IF setup[2] # NoneI THEN HandlerNames("tech", setup[2]) ELSE <<>>)
    \o HandlerNames("science", setup[1])

\* the handlers of env_pipeline before the arch is asked
env_pipeline(setup) ==
    HandlerNames("science", setup[1])
    \o (IF setup[2] # NoneI THEN HandlerNames("tech", setup[2]) ELSE <<>>)

\* the LaunchData that a prepare call returns
LaunchDataOf(prepare) == [prepared |-> prepare]

\* as run_step, but finding out that there is no launcher only when it is used
run_step_checkLate(r) ==
    CASE r.at = "called" ->
            IF r.arch # PyNone
            THEN [r EXCEPT !.at = "launcher",
                           !.events = Append(@, "process_job"),
                           !.pipeline = env_pipeline(r.setup) \o r.arch.env_handlers,
                           !.launcher = IF @ = "None" THEN r.arch.default_launcher ELSE @,
                           !.launcher_flags = IF @ = NoneL THEN r.arch.default_launcher_flags
                                              ELSE @]
            ELSE [r EXCEPT !.at = "launcher", !.pipeline = env_pipeline(r.setup)]
      [] r.at = "launcher" ->
            [r EXCEPT !.at = "data",
                      !.events = @ \o <<"get_command", "get_library_paths">>,
                      !.data = data_handlers(r.setup),
                      !.todo = Len(data_handlers(r.setup))]
      [] r.at = "data" ->
            IF r.todo > 0
            THEN [r EXCEPT !.todo = @ - 1, !.events = Append(@, "execute"),
                           !.executed = Append(@, r.data[Len(r.executed) + 1])]
            ELSE IF r.launcher = "None"
            THEN [r EXCEPT !.at = "raised", !.error = "ValueError"]
            ELSE [r EXCEPT !.at = "prepared", !.events = Append(@, "prepare"),
                           !.pipeline = @ \o HandlerNames(application(r.setup), r.setup[3]),
                           !.prepare = Append(@, [launcher |-> r.launcher,
                               handlers |-> r.pipeline
                                            \o HandlerNames(application(r.setup), r.setup[3]),
                               launcher_flags |-> r.launcher_flags])]
      [] r.at = "prepared" ->
            [r EXCEPT !.at = "done", !.events = Append(@, "launch"),
                      !.launched = Append(@, LaunchDataOf(r.prepare[Len(r.prepare)]))]
      [] OTHER -> r

\* the next statement of DefaultBenchmark.run: the pipeline is built and the
\* arch is asked first, then the launcher is checked and the command is built,
\* the data handlers are executed one by one, the env handlers of the
\* application are added and the launcher prepares, and the result is launched
run_step(r) ==
    CASE r.at = "called" ->
            IF r.arch # PyNone
            THEN [r EXCEPT !.at = "launcher",
                           !.events = Append(@, "process_job"),
                           !.pipeline = env_pipeline(r.setup) \o r.arch.env_handlers,
                           !.launcher = IF @ = "None" THEN r.arch.default_launcher ELSE @,
                           !.launcher_flags = IF @ = NoneL THEN r.arch.default_launcher_flags
                                              ELSE @]
            ELSE [r EXCEPT !.at = "launcher", !.pipeline = env_pipeline(r.setup)]
      [] r.at = "launcher" ->
            IF r.launcher = "None"
            THEN [r EXCEPT !.at = "raised", !.error = "ValueError"]
            ELSE [r EXCEPT !.at = "data",
                           !.events = @ \o <<"get_command", "get_library_paths">>,
                           !.data = data_handlers(r.setup),
                           !.todo = Len(data_handlers(r.setup))]
      [] r.at = "data" ->
            IF r.todo > 0
            THEN [r EXCEPT !.todo = @ - 1, !.events = Append(@, "execute"),
                           !.executed = Append(@, r.data[Len(r.executed) + 1])]
            ELSE [r EXCEPT !.at = "prepared", !.events = Append(@, "prepare"),
                           !.pipeline = @ \o HandlerNames(application(r.setup), r.setup[3]),
                           !.prepare = Append(@, [launcher |-> r.launcher,
                               handlers |-> r.pipeline
                                            \o HandlerNames(application(r.setup), r.setup[3]),
                               launcher_flags |-> r.launcher_flags])]
      [] r.at = "prepared" ->
            [r EXCEPT !.at = "done", !.events = Append(@, "launch"),
                      !.launched = Append(@, LaunchDataOf(r.prepare[Len(r.prepare)]))]
      [] OTHER -> r

Running == last.op = "run" /\ last.at \notin {"done", "raised"}

\* benchmark.run(run_dir, job, arch, launcher, launcher_flags)
Run(setup, arch, launcher, launcher_flags) ==
    /\ ~Running
    /\ last' = [op |-> "run", at |-> "called", setup |-> setup,
                arch |-> arch, given |-> launcher, given_flags |-> launcher_flags,
                launcher |-> launcher, launcher_flags |-> launcher_flags,
                todo |-> 0, events |-> <<>>, error |-> "None",
                data |-> <<>>, executed |-> <<>>, pipeline |-> <<>>,
                prepare |-> <<>>, launched |-> <<>>]
    /\ UNCHANGED <<defined, subclasses, adapter>>
    /\ UNCHANGED launch

RunStep ==
    /\ Running
    /\ last' = run_step(last)
    /\ UNCHANGED <<defined, subclasses, adapter>>
    /\ UNCHANGED launch

NextRun ==
    \/ \E setup \in DataSetups, arch \in Archs, launcher \in RunLaunchers,
          launcher_flags \in RunFlags : Run(setup, arch, launcher, launcher_flags)
    \/ RunStep

SpecRun == Init /\ [][NextRun]_vars

----------------------------------------------------------------------------
(* DefaultBenchmark.setup_rundir *)

\* benchmarks: the init data handlers of the science setup and of the tech
\* setup (PyNone: no tech setup), as the lists are when the benchmark is built
ScienceInits == { <<>>, <<"s1">>, <<"s1", "s2">> }
TechInits == { PyNone, PyList(<<>>), PyList(<<"t1">>), PyList(<<"t1", "t2">>) }
RunDirStates == { "missing", "empty", "nonempty" }

\* setup_rundir(run_dir, force) on a benchmark b with the run directory in
\* state dir: the handlers executed, in order, and the benchmark afterwards.
\* 'handlers = self.science.data_handlers_init' names the list of the science
\* setup itself, and '+=' extends that list in place.
setup_rundir(b, dir, force) ==
    LET exists == dir = "nonempty"
        handlers == IF b.tech # PyNone THEN b.science \o b.tech.list ELSE b.science
    IN IF exists /\ ~force
       THEN [science |-> b.science, tech |-> b.tech, executed |-> <<>>]
       ELSE [science |-> handlers, tech |-> b.tech, executed |-> handlers]

\* a data handler puts files into the run directory
AfterHandlers(dir, executed) == IF executed # <<>> THEN "nonempty" ELSE dir

InitSetup ==
    /\ pc = "idle"
    /\ heap = <<DefaultEnvPipeline>>
    /\ call = NoCall
    /\ cur = 0 /\ wi = 0 /\ result = 0 /\ again = 0
    /\ stages = <<>>
    /\ clock = 1
    /\ files = <<>> /\ dirs = {}
    /\ log = <<>>
    /\ defined = Imported.defined /\ subclasses = Imported.subclasses
    /\ adapter = Imported.adapter
    /\ \E science \in ScienceInits, tech \in TechInits, dir \in RunDirStates :
          last = [op |-> "DefaultBenchmark", science |-> science, tech |-> tech,
                  science0 |-> science, tech0 |-> tech,
                  dir |-> dir, dir_before |-> dir, force |-> FALSE,
                  calls |-> 0, executed |-> <<>>]

\* benchmark.setup_rundir(run_dir, force)
SetupRundir(force) ==
    /\ last.calls < MaxCalls
    /\ LET r == setup_rundir(last, last.dir, force)
       IN last' = [last EXCEPT !.op = "setup_rundir",
                               !.science = r.science, !.tech = r.tech,
                               !.executed = r.executed,
                               !.dir_before = last.dir,
                               !.dir = AfterHandlers(last.dir, r.executed),
                               !.force = force,
                               !.calls = @ + 1]
    /\ UNCHANGED <<defined, subclasses, adapter>>
    /\ UNCHANGED launch

\* the run directory is emptied between two calls
EmptyRundir ==
    /\ last.dir = "nonempty"
    /\ last' = [last EXCEPT !.dir = "empty"]
    /\ UNCHANGED <<defined, subclasses, adapter>>
    /\ UNCHANGED launch

NextSetup ==
    \/ \E force \in BOOLEAN : SetupRundir(force)
    \/ EmptyRundir

SpecSetup == InitSetup /\ [][NextSetup]_vars

----------------------------------------------------------------------------
(* FrameCloseValidation, validate_result_identical *)

\* a cell of a DataFrame: a number or NaN
Num(x) == [num |-> x]
NaN == [nan |-> TRUE]

\* a DataFrame: index labels, columns with their dtype, and rows of cells
Col(name, dtype) == [name |-> name, dtype |-> dtype]
DataFrame(index, columns, values) ==
    [index |-> index, columns |-> columns, values |-> values]

Pick(s, idx) == [i \in 1..Len(idx) |-> s[idx[i]]]

RECURSIVE float_positions(_, _)
float_positions(columns, j) ==
    IF j > Len(columns) THEN <<>>
    ELSE (IF columns[j].dtype = "float" THEN <<j>> ELSE <<>>)
         \o float_positions(columns, j + 1)

\* the frame without its non-float columns
get_float_columns(frame) ==
    LET keep == float_positions(frame.columns, 1)
    IN DataFrame(frame.index, Pick(frame.columns, keep),
                 [i \in DOMAIN frame.values |-> Pick(frame.values[i], keep)])

Abs(x) == IF x < 0 THEN -x ELSE x

\* numpy.isclose(a, b, rtol, atol, equal_nan=True)
isclose(a, b, rtol, atol) ==
    IF a = NaN \/ b = NaN THEN a = b
    ELSE Abs(a.num - b.num) <= atol + rtol * Abs(b.num)

\* positions of a frame with rows and cols, row by row (numpy.argwhere order)
Positions(rows, cols) ==
    [k \in 1..(rows * cols) |-> <<((k - 1) \div cols) + 1, ((k - 1) % cols) + 1>>]

\* FrameCloseValidation(atol, rtol).compare(frame1, frame2)
compare(self, frame1, frame2) ==
    LET f1 == get_float_columns(frame1)
        f2 == get_float_columns(frame2)
        close(p) == isclose(f1.values[p[1]][p[2]], f2.values[p[1]][p[2]],
                            self.rtol, self.atol)
        where == SelectSeq(Positions(Len(f1.index), Len(f1.columns)),
                           LAMBDA p : ~close(p))
    IN IF f1.index # f2.index THEN [equal |-> FALSE, mismatch |-> <<>>]
       ELSE IF f1.columns # f2.columns THEN [equal |-> FALSE, mismatch |-> <<>>]
       ELSE [equal |-> where = <<>>,
             mismatch |-> [k \in DOMAIN where |->
                              <<f1.index[where[k][1]], f1.columns[where[k][2]].name>>]]

\* a result handed over as a file holds the frames that from_config reads from
\* it; one handed over as an object has a class
FromFile(frames) == [kind |-> "path", frames |-> frames]
ResultData(cls, frames) == [kind |-> "object", cls |-> cls, frames |-> frames]

\* validate_result_identical(result, reference_path, result_type, atol, rtol),
\* res being its result argument;
\* reference holds the frames read from reference_path
validate_result_identical(res, reference, result_type, atol, rtol) ==
    LET validator == [atol |-> atol, rtol |-> rtol]
        frames == AsMap(res.frames)
        ref == AsMap(reference)
        differs(key) == LET c == compare(validator, frames[key], ref[key])
                        IN ~c.equal /\ c.mismatch # <<>>
    IN IF res.kind = "object" /\ res.cls # result_type
       THEN Raised("RuntimeError")
       ELSE IF DictKeys(res.frames) # DictKeys(reference)
       THEN Raised("RuntimeError")
       ELSE Ok(~ \E key \in DictKeys(res.frames) : differs(key))

f_base == DataFrame(<<0, 1>>, <<Col("a", "float"), Col("n", "int")>>,
                    << <<Num(2), Num(4)>>, <<Num(5), Num(3)>> >>)
f_close == [f_base EXCEPT !.values[1][1] = Num(3)]
f_int == [f_base EXCEPT !.values[1][2] = Num(7)]
f_nan == [f_base EXCEPT !.values[2][1] = NaN]
f_row == DataFrame(<<0, 1, 2>>, f_base.columns,
                   f_base.values \o << <<Num(7), Num(9)>> >>)
f_col == [f_base EXCEPT !.columns[1] = Col("b", "float")]
TestFrames == { f_base, f_close, f_int, f_nan, f_row, f_col }

FrameDicts ==
    { << <<"frame1", f>> >> : f \in TestFrames }
    \cup { << <<"frame1", f_base>>, <<"frame2", f>> >> : f \in {f_base, f_close} }
    \cup { << <<"frame2", f_base>> >> }
ResultTypes == { "TestResult", "AnotherResult" }
Results == { FromFile(d) : d \in FrameDicts }
           \cup { ResultData(cls, d) : cls \in ResultTypes, d \in FrameDicts }
\* atol and rtol of a call
Tolerances == { <<0, 0>>, <<1, 0>>, <<0, 1>> }

InitValidate ==
    /\ pc = "idle"
    /\ heap = <<DefaultEnvPipeline>>
    /\ call = NoCall
    /\ cur = 0 /\ wi = 0 /\ result = 0 /\ again = 0
    /\ stages = <<>>
    /\ clock = 1
    /\ files = <<>> /\ dirs = {}
    /\ log = <<>>
    /\ defined = Imported.defined /\ subclasses = Imported.subclasses
    /\ adapter = Imported.adapter
    /\ last = NoCall

\* validate_result_identical(res, reference_path, TestResult, atol, rtol)
Validate(res, reference, atol, rtol) ==
    /\ last' = [op |-> "validate_result_identical", result |-> res,
                reference |-> reference, result_type |-> "TestResult",
                atol |-> atol, rtol |-> rtol,
                out |-> validate_result_identical(res, reference, "TestResult",
                                                  atol, rtol)]
    /\ UNCHANGED <<defined, subclasses, adapter>>
    /\ UNCHANGED launch

NextValidate ==
    \E res \in Results, reference \in FrameDicts, tol \in Tolerances :
        Validate(res, reference, tol[1], tol[2])

SpecValidate == InitValidate /\ [][NextValidate]_vars

----------------------------------------------------------------------------
(* LauncherBuilder *)

PyStrs(flags) == PyList([i \in DOMAIN flags |-> PyStr(flags[i])])
SrunObj == Obj("SrunLauncher", [class_name |-> PyStr("SrunLauncher"), flags |-> PyList(<<>>)])
\* BashLauncher(base_launcher=..., base_launcher_flags=...)
BashOver(base_launcher, base_launcher_flags) ==
    Obj("BashLauncher", [class_name |-> PyStr("BashLauncher"), flags |-> PyList(<<>>),
                         base_launcher |-> base_launcher,
                         base_launcher_flags |-> PyStrs(base_launcher_flags)])

\* a LauncherBuilder with its field defaults
LauncherBuilder ==
    [launcher_srun |-> FALSE, launcher_mpirun |-> FALSE, launcher_direct |-> PyNone,
     debug_ddt |-> FALSE, debug_launcher_flags |-> <<>>, add_launcher_flags |-> <<>>,
     launcher_flags |-> PyNone, bash |-> FALSE]

\* the launchers the options of self select
Selected(self) ==
    (IF self.launcher_srun THEN 1 ELSE 0) + (IF self.launcher_mpirun THEN 1 ELSE 0)
    + (IF self.launcher_direct # PyNone THEN 1 ELSE 0)

\* as build_launcher, with explicit launcher flags appended to the defaults
build_launcher_flagsAppended(self, default_launcher, default_launcher_flags) ==
    LET defaults == IF default_launcher_flags = PyNone THEN <<>>
                    ELSE default_launcher_flags.list
        srun == IF self.launcher_srun THEN SrunObj ELSE default_launcher
        mpirun == IF self.launcher_mpirun THEN MpirunObj(<<>>) ELSE srun
        launcher == IF self.launcher_direct # PyNone
                    THEN (IF self.launcher_direct.str # ""
                          THEN DirectObj(<<>>, self.launcher_direct)
                          ELSE DirectObj(<<>>, PyNone))
                    ELSE mpirun
        flags == IF self.launcher_flags # PyNone
                 THEN defaults \o self.launcher_flags.list
                 ELSE defaults \o self.add_launcher_flags
        ddt == IF self.debug_ddt THEN DDTObj(<<>>, launcher, PyStrs(flags).list)
               ELSE launcher
        ddt_flags == IF self.debug_ddt THEN self.debug_launcher_flags ELSE flags
        bash == IF self.bash THEN BashOver(ddt, ddt_flags) ELSE ddt
        bash_flags == IF self.bash THEN <<>> ELSE ddt_flags
    IN IF launcher = PyNone
       THEN [launcher |-> PyNone, flags |-> <<>>, warning |-> Selected(self) > 1]
       ELSE [launcher |-> bash, flags |-> bash_flags, warning |-> Selected(self) > 1]

\* self.build_launcher(default_launcher, default_launcher_flags): the launcher
\* and the flags returned, and whether the warning was logged
build_launcher(self, default_launcher, default_launcher_flags) ==
    LET defaults == IF default_launcher_flags = PyNone THEN <<>>
                    ELSE default_launcher_flags.list
        srun == IF self.launcher_srun THEN SrunObj ELSE default_launcher
        mpirun == IF self.launcher_mpirun THEN MpirunObj(<<>>) ELSE srun
        launcher == IF self.launcher_direct # PyNone
                    THEN (IF self.launcher_direct.str # ""
                          THEN DirectObj(<<>>, self.launcher_direct)
                          ELSE DirectObj(<<>>, PyNone))
                    ELSE mpirun
        flags == IF self.launcher_flags # PyNone
                 THEN self.launcher_flags.list
                 ELSE defaults \o self.add_launcher_flags
        ddt == IF self.debug_ddt THEN DDTObj(<<>>, launcher, PyStrs(flags).list)
               ELSE launcher
        ddt_flags == IF self.debug_ddt THEN self.debug_launcher_flags ELSE flags
        bash == IF self.bash THEN BashOver(ddt, ddt_flags) ELSE ddt
        bash_flags == IF self.bash THEN <<>> ELSE ddt_flags
    IN IF launcher = PyNone
       THEN [launcher |-> PyNone, flags |-> <<>>, warning |-> Selected(self) > 1]
       ELSE [launcher |-> bash, flags |-> bash_flags, warning |-> Selected(self) > 1]

\* the builder that process_launcher makes of the command line options
launcher_options(kwargs) ==
    [LauncherBuilder EXCEPT
        !.launcher_mpirun = kwargs.launcher_mpirun,
        !.launcher_srun = kwargs.launcher_srun,
        !.launcher_direct = kwargs.launcher_direct,
        !.debug_ddt = kwargs.debug_ddt,
        !.launcher_flags = IF kwargs.replace THEN PyList(kwargs.launcher_flags) ELSE @,
        !.add_launcher_flags = IF kwargs.replace THEN @ ELSE kwargs.launcher_flags,
        !.debug_launcher_flags = kwargs.debug_launcher_flags,
        !.bash = kwargs.bash]

CommandLines ==
    [launcher_mpirun : BOOLEAN, launcher_srun : BOOLEAN,
     launcher_direct : {PyNone, PyStr(""), PyStr("mpirun")},
     debug_ddt : BOOLEAN, bash : BOOLEAN, replace : BOOLEAN,
     launcher_flags : {<<>>, <<"--flagA">>},
     debug_launcher_flags : {<<>>, <<"--ddt-option=5">>}]

\* builders made from a configuration, with both kinds of flags set
ConfiguredBuilders ==
    { [LauncherBuilder EXCEPT !.add_launcher_flags = <<"--flagB">>,
                              !.launcher_flags = PyList(<<"--flagA">>),
                              !.launcher_mpirun = mpirun,
                              !.debug_launcher_flags = debug] :
        mpirun \in BOOLEAN, debug \in {<<>>, <<"--ddt-option=5">>} }

DefaultLaunchers == { PyNone, SrunObj }
DefaultFlags == { PyNone, PyList(<<"--something">>) }

\* a command that carries @launcher_options is invoked
ProcessLauncher(kwargs) ==
    /\ last' = [op |-> "launcher_options", self |-> launcher_options(kwargs)]
    /\ UNCHANGED <<defined, subclasses, adapter>>
    /\ UNCHANGED launch

\* LauncherBuilder.from_config(...)
BuilderFromConfig(builder) ==
    /\ last' = [op |-> "LauncherBuilder", self |-> builder]
    /\ UNCHANGED <<defined, subclasses, adapter>>
    /\ UNCHANGED launch

\* builder.build_launcher(default_launcher, default_launcher_flags)
BuildLauncher(default_launcher, default_launcher_flags) ==
    /\ last.op \in {"launcher_options", "LauncherBuilder", "build_launcher"}
    /\ last' = [op |-> "build_launcher", self |-> last.self,
                default_launcher |-> default_launcher,
                default_launcher_flags |-> default_launcher_flags,
                out |-> build_launcher(last.self, default_launcher,
                                       default_launcher_flags)]
    /\ UNCHANGED <<defined, subclasses, adapter>>
    /\ UNCHANGED launch

NextBuild ==
    \/ \E kwargs \in CommandLines : ProcessLauncher(kwargs)
    \/ \E builder \in ConfiguredBuilders : BuilderFromConfig(builder)
    \/ \E default_launcher \in DefaultLaunchers, default_launcher_flags \in DefaultFlags :
          BuildLauncher(default_launcher, default_launcher_flags)

SpecBuild == InitValidate /\ [][NextBuild]_vars

----------------------------------------------------------------------------
(* dump_config of nested objects *)

Wrappings ==
    { <<>>, <<BashObj(<<>>)>>, <<BashObj(<<>>), BashObj(<<PyStr("-x")>>)>> }
DumpInstances ==
    Instances
    \cup { CompositeObj(b, w) : b \in LauncherInstances, w \in Wrappings }
    \cup { DDTObj(<<>>, b, f) : b \in LauncherInstances, f \in {<<>>, <<PyStr("-b")>>} }
    \cup { DDTObj(<<>>, DDTObj(<<>>, b, <<>>), <<>>) : b \in LauncherInstances }
    \cup { CompositeObj(DDTObj(<<>>, b, <<>>), <<BashObj(<<>>)>>) : b \in LauncherInstances }

\* self.dump_config(with_class), with the calls of the default serialisation
DumpConfig(self, with_class) ==
    /\ LET r == model_dump_context(self)
           config == r.value.dict
       IN last' = [op |-> "dump_config", self |-> self, with_class |-> with_class,
                   calls |-> r.calls, recursive |-> r.recursive,
                   out |-> IF r.value = Raised("RecursionError") THEN r.value
                           ELSE IF with_class
                           THEN PyDict((CLASSNAME :> PyStr(ClassDefs[self.cls].name))
                                       @@ config)
                           ELSE PyDict([n \in DOMAIN config \ {CLASSNAME} |-> config[n]])]
    /\ UNCHANGED <<defined, subclasses, adapter>>
    /\ UNCHANGED launch

NextDump == \E self \in DumpInstances, with_class \in BOOLEAN : DumpConfig(self, with_class)

SpecDump == InitValidate /\ [][NextDump]_vars

----------------------------------------------------------------------------
(* RenameHandler *)

\* re.sub(pattern, repl, string) for a pattern that is one literal character
re_sub(pattern, repl, string) == replace(string, pattern, repl)

\* the files of wdir by their path relative to it; a regular file holds data,
\* a symbolic link the path it points to
RegularFile(data) == [kind |-> "file", data |-> data]
Symlink(target) == [kind |-> "link", data |-> target]
FileNames == { <<"a">>, <<"a", "a">>, <<"b">>, <<"a", "b">> }
Patterns == { "a", "b" }
Repls == { <<"a", "a">>, <<"b">> }
RenameModes == { "COPY", "SYMLINK", "MOVE" }

\* the files of a directory in an order in which wdir.rglob('*') yields them
Listings ==
    { order \in UNION { [1..n -> FileNames] : n \in 1..MaxFiles } :
        \A i \in DOMAIN order, j \in DOMAIN order : order[i] = order[j] => i = j }

\* path_mapping: the files whose substituted path differs, in rglob order
path_mapping(self, order) ==
    SelectSeq([i \in DOMAIN order |->
                 <<order[i], re_sub(self.pattern, self.repl, order[i])>>],
              LAMBDA e : e[1] # e[2])

\* whatever is at dest is deleted, then source is copied, linked or moved
rename(self, fs, source, dest) ==
    [p \in (DOMAIN fs \ (IF self.mode = "MOVE" THEN {source} ELSE {})) \cup {dest} |->
        IF p = dest
        THEN (IF self.mode = "SYMLINK" THEN Symlink(source) ELSE fs[source])
        ELSE fs[p]]

\* the loop over path_mapping.items() from entry i on
RECURSIVE rename_all(_, _, _, _)
rename_all(self, fs, mapping, i) ==
    IF i > Len(mapping) THEN [fs |-> fs, out |-> "returned"]
    ELSE IF \E k \in DOMAIN mapping : mapping[k][1] = mapping[i][2]
    THEN [fs |-> fs, out |-> "RuntimeError"]
    ELSE rename_all(self, rename(self, fs, mapping[i][1], mapping[i][2]), mapping, i + 1)

\* RenameHandler(pattern, repl, mode).execute(wdir) on the files fs of wdir,
\* which rglob yields in the given order
RenameHandler_execute(self, fs, order) ==
    LET mapping == path_mapping(self, order)
    IN IF Cardinality({ mapping[k][1] : k \in DOMAIN mapping })
          # Cardinality({ mapping[k][2] : k \in DOMAIN mapping })
       THEN [fs |-> fs, out |-> "RuntimeError"]
       ELSE rename_all(self, fs, mapping, 1)

\* handler.execute(wdir) for a directory that holds the files of order
ExecuteRename(self, order) ==
    /\ LET fs == [p \in Range(order) |-> RegularFile(p)]
           r == RenameHandler_execute(self, fs, order)
       IN last' = [op |-> "RenameHandler.execute", self |-> self, order |-> order,
                   before |-> fs, after |-> r.fs, out |-> r.out]
    /\ UNCHANGED <<defined, subclasses, adapter>>
    /\ UNCHANGED launch

NextRename ==
    \E pattern \in Patterns, repl \in Repls, mode \in RenameModes, order \in Listings :
        ExecuteRename([mode |-> mode, pattern |-> pattern, repl |-> repl], order)

SpecRename == InitValidate /\ [][NextRename]_vars

----------------------------------------------------------------------------
(* C13 *)

NestedComposite ==
    CompositeObj(CompositeObj(MpirunObj(<<>>), <<>>), <<BashObj(<<PyStr("-x")>>)>>)

\* C13: a launcher or wrapper whose classes, those of the launchers inside
\* included, are the registered ones comes back equal, field by field, from
\* from_config of its dump_config, with the top-level class name and without.
C13_RoundTrip ==
    (/\ last.op = "round_trip"
     /\ last.self \in LauncherInstances
     /\ ClassesOf(last.self) \subseteq Range(subclasses))
    => last.out = Ok(last.self)

\* a composite inside a composite, dumped without the top-level class name,
\* the class names of the launchers inside kept, and read back
C13_Witness ==
    /\ last.op = "round_trip"
    /\ last.self = NestedComposite
    /\ ~last.with_class
    /\ CLASSNAME \notin DOMAIN last.config.dict
    /\ last.config.dict.base_launcher.dict.class_name = PyStr("CompositeLauncher")
    /\ last.config.dict.wrappers.list[1].dict.class_name = PyStr("BashLauncher")
    /\ last.out = Ok(NestedComposite)

----------------------------------------------------------------------------
(* C14 *)

\* the names of the subclasses of B defined so far
SubclassNames(B) ==
    { ClassDefs[c].name : c \in { d \in defined : d # B /\ get_abstract_dataclass(d) = B } }

\* the mapping gives every field of cls that has no default
RequiredGiven(cls, config) ==
    \A n \in DOMAIN model_fields(cls) :
        model_fields(cls)[n].default # Required \/ n \in DOMAIN config.dict

\* C14: from_config on a polymorphic base constructs an instance of the
\* subclass that class_name names, and fails with a validation error when
\* class_name is absent, names no subclass of the base or a field value is
\* invalid; a concrete subclass accepts a mapping without class_name.
C14_Original ==
    last.op = "from_config" =>
        /\ last.cls = get_abstract_dataclass(last.cls) =>
              IF /\ CLASSNAME \in DOMAIN last.config.dict
                 /\ last.config.dict[CLASSNAME] \in { PyStr(n) : n \in SubclassNames(last.cls) }
              THEN IF IsOk(last.out)
                   THEN ClassDefs[last.out.ok.cls].name = last.config.dict[CLASSNAME].str
                   ELSE last.out = Raised("ValidationError")
              ELSE last.out = Raised("ValidationError")
        /\ (/\ subclassable(last.cls)
            /\ last.cls # get_abstract_dataclass(last.cls)
            /\ last.config \in { PyDict(<<>>), PyDict([flags |-> PyList(<<PyStr("-v")>>)]) }
            /\ RequiredGiven(last.cls, last.config))
           => IsOk(last.out) /\ last.out.ok.cls = last.cls

----------------------------------------------------------------------------
(* C15 *)

\* C15: whatever classes have been defined, in whatever order, from_config on
\* a polymorphic base B returns instances of subclasses of B only, accepts the
\* name of every subclass of B defined so far and rejects every other name.
C15_Original ==
    (/\ last.op = "from_config"
     /\ last.cls = get_abstract_dataclass(last.cls))
    => /\ IsOk(last.out) =>
            /\ get_abstract_dataclass(last.out.ok.cls) = last.cls
            /\ ClassDefs[last.out.ok.cls].name \in SubclassNames(last.cls)
       /\ (/\ CLASSNAME \in DOMAIN last.config.dict
           /\ last.config.dict[CLASSNAME] \in { PyStr(n) : n \in SubclassNames(last.cls) }
           /\ "base_launcher" \notin DOMAIN last.config.dict
           /\ \A c \in defined :
                 ClassDefs[c].name = last.config.dict[CLASSNAME].str
                    => RequiredGiven(c, last.config)
           /\ "flags" \in DOMAIN last.config.dict => IsList(last.config.dict.flags))
          => IsOk(last.out)

----------------------------------------------------------------------------
(* C16 *)

\* C16: a class statement that puts a different class under a name the
\* registry already holds either raises an error or leaves the earlier class
\* the one from_config dispatches to.
C16_Original ==
    [][\A q \in DOMAIN subclasses :
          subclasses'[q] # subclasses[q]
             => \/ last'.raised # "None"
                \/ \A B \in DOMAIN adapter' : \A c \in adapter'[B] :
                      ClassDefs[c].name = ClassDefs[subclasses[q]].name
                         => c = subclasses[q]]_vars

----------------------------------------------------------------------------
(* C17 *)

\* C17: a class that declares a field class_name cannot be instantiated with
\* a value of the user's choice for it: the mapping is rejected with a
\* validation error, for a plain SerialisationMixin class as for a subclass of
\* a polymorphic base.
C17_Original ==
    (/\ last.op = "from_config"
     /\ CLASSNAME \in DOMAIN ClassDefs[last.cls].own
     /\ CLASSNAME \in DOMAIN last.config.dict
     /\ last.config.dict[CLASSNAME] # PyStr(ClassDefs[last.cls].name))
    => last.out = Raised("ValidationError")

----------------------------------------------------------------------------
(* C18 *)

Front(s) == SubSeq(s, 1, Len(s) - 1)
EndsIn(s, tail) == Len(s) >= Len(tail) /\ SubSeq(s, Len(s) - Len(tail) + 1, Len(s)) = tail

SetK == EnvHandler("SET", s_k, s_v1)
AppendK == EnvHandler("APPEND", s_k, s_v2)

\* C18: where the handlers end in [SET k v1, APPEND k v2], execute() yields
\* env[k] = v1 + ':' + v2; where they end in [APPEND k v2, SET k v1], it
\* yields v1; an APPEND on a key that is absent or empty before it yields the
\* value alone; and what execute() yields is what the last handler makes of
\* what the handlers before it yield.
C18_HandlerOrder ==
    last.op = "execute" =>
        LET hs == last.handlers
            env == last.env
            before == [kind |-> "EnvPipeline", handlers |-> Front(hs),
                       env_initial |-> last.env_initial]
        IN /\ EndsIn(hs, <<SetK, AppendK>>)
                => s_k \in DictKeys(env) /\ DictGet(env, s_k) = <<"v","1",":","v","2">>
           /\ EndsIn(hs, <<AppendK, SetK>>)
                => s_k \in DictKeys(env) /\ DictGet(env, s_k) = <<"v","1">>
           /\ (/\ EndsIn(hs, <<AppendK>>)
               /\ \/ s_k \notin DictKeys(EnvPipeline_execute(before))
                  \/ DictGet(EnvPipeline_execute(before), s_k) = <<>>)
                => s_k \in DictKeys(env) /\ DictGet(env, s_k) = <<"v","2">>
           /\ hs # <<>>
                => AsMap(env) = AsMap(EnvHandler_execute(hs[Len(hs)],
                                                         EnvPipeline_execute(before)))
           /\ hs = <<>> => AsMap(env) = AsMap(last.env_initial)

\* [SET k v1, APPEND k v2] executed on an environment that holds another value
\* of k
C18_Witness ==
    /\ last.op = "execute"
    /\ last.handlers = <<SetK, AppendK>>
    /\ last.env_initial = << <<s_k, s_v0>>, <<s_A, <<"1">> >> >>
    /\ DictGet(last.env, s_k) = <<"v","1",":","v","2">>

----------------------------------------------------------------------------
(* C19 *)

\* no launcher argument and none from the arch
NoLauncher(r) ==
    /\ r.given = "None"
    /\ r.arch = PyNone \/ r.arch.default_launcher = "None"

Occurs(events, e) == \E i \in DOMAIN events : events[i] = e

\* C19: a run without a launcher argument and without a default launcher
\* from the arch never executes a data handler, never calls prepare and never
\* launches, and the only way it ends is with ValueError; no other run raises.
C19_NoLauncherRaises ==
    last.op = "run" =>
        /\ NoLauncher(last) =>
              /\ last.at \in {"called", "launcher", "raised"}
              /\ ~Occurs(last.events, "execute")
              /\ ~Occurs(last.events, "prepare")
              /\ ~Occurs(last.events, "launch")
        /\ last.at = "raised" => NoLauncher(last) /\ last.error = "ValueError"
        /\ last.at = "done" => ~NoLauncher(last) /\ last.error = "None"

\* ValueError from a run of a setup that has data handlers, with an arch that
\* was asked and has no default launcher
C19_Witness ==
    /\ last.op = "run"
    /\ last.at = "raised"
    /\ last.error = "ValueError"
    /\ last.setup = <<1, 1, 1, FALSE>>
    /\ last.arch = ArchResult("None", <<s_f>>, <<>>)
    /\ last.events = <<"process_job">>

----------------------------------------------------------------------------
(* C20 *)

\* what the call made would return for the same arguments and a job with the
\* remote distribution dr
WithRemote(dr) ==
    LET w == MpirunLauncher_prepare(
                [heap |-> <<call.pipeline_before>>, log |-> <<>>, files |-> <<>>,
                 dirs |-> {}, ld |-> 0],
                call.self, call.run_dir, [call.job EXCEPT !.distribute_remote = dr],
                call.cmd, call.library_paths, call.env_pipeline, call.custom_flags)
    IN [value |-> LDValue(w.heap, w.ld), log |-> w.log]

\* C20: MpirunLauncher.prepare returns the same cmd and env whatever the
\* job's distribute_remote is, all other arguments being the same; a value
\* other than unset, DEFAULT and USER adds one warning to the log with each
\* call and nothing else, and the call returns.
C20_RemoteIgnored ==
    MpirunDone =>
        /\ \A dr \in CpuDistribution \cup {NoneE} :
              /\ WithRemote(dr).value.cmd = Result.cmd
              /\ WithRemote(dr).value.env = Result.env
              /\ WithRemote(dr).value.run_dir = Result.run_dir
              /\ \A i \in DOMAIN WithRemote(dr).log : WithRemote(dr).log[i].level = "warning"
        /\ WithRemote(call.job.distribute_remote).value = Result
        /\ \A i \in DOMAIN log : log[i].level = "warning"
        /\ Len(log) = IF call.job.distribute_remote \in {"DISTRIBUTE_BLOCK", "DISTRIBUTE_CYCLIC"}
                      THEN (IF again = 0 THEN 1 ELSE 2) ELSE 0

\* a job with a cyclic remote and a cyclic local distribution and 12 threads:
\* one warning, and the map-by flag of the local distribution only
C20_Witness ==
    /\ MpirunDone
    /\ call.job.distribute_remote = "DISTRIBUTE_CYCLIC"
    /\ call.job.distribute_local = "DISTRIBUTE_CYCLIC"
    /\ call.job.cpus_per_task = 12
    /\ again = 0
    /\ Len(log) = 1 /\ log[1].level = "warning"
    /\ Len(SelectSeq(Result.cmd, LAMBDA tok : tok = <<"-","-","m","a","p","-","b","y">>)) = 1
    /\ WithRemote(NoneE).log = <<>>
    /\ WithRemote(NoneE).value.cmd = Result.cmd

----------------------------------------------------------------------------
(* C21 *)

IndexOf(s, c) == CHOOSE i \in DOMAIN s : s[i] = c /\ \A j \in 1..(i - 1) : s[j] # c

\* the names the script exports: what stands between 'export ' and the first '='
ExportedKeys == { SubSeq(line, 8, IndexOf(line, "=") - 1) : line \in ExportLines }

InvalidKeys == { key \in DOMAIN ScriptInput.env : ~Identifier(key) }

\* C21: a BashLauncher given an env with names that are no shell identifiers
\* returns its LaunchData all the same; the script exports every name that is
\* an identifier and none of the others, and has its command section: the
\* header, the cd line and the command line.
C21_InvalidKeysSkipped ==
    LastIsBash =>
        /\ stages[Len(stages)].value.cmd[1] = <<"/","b","i","n","/","b","a","s","h">>
        /\ stages[Len(stages)].value.cmd[2] \in DOMAIN files
        /\ ExportedKeys = DOMAIN ScriptInput.env \ InvalidKeys
        /\ \E i \in DOMAIN ScriptLines :
              /\ ScriptLines[i] = <<"#"," ","S","p","e","c","i","f","y"," ","l","a","u","n","c","h",
                                    " ","c","o","m","m","a","n","d">>
              /\ i < Len(ScriptLines) - 1
              /\ \A j \in DOMAIN ScriptLines :
                    StartsWith(ScriptLines[j], <<"e","x","p","o","r","t">>) => j < i
        /\ StartsWith(ScriptLines[Len(ScriptLines) - 1], <<"c","d"," ">>)
        /\ ScriptLines[Len(ScriptLines)] = Quoted(ScriptInput.cmd)

\* an env with the names '_a1', an identifier, and '9k', which starts with a
\* digit: the script exports '_a1' alone
C21_Witness ==
    /\ LastIsBash
    /\ DOMAIN ScriptInput.env = { <<"_","a","1">>, <<"9","k">> }
    /\ ExportedKeys = { <<"_","a","1">> }
    /\ ScriptLines[Len(ScriptLines)] # <<>>

----------------------------------------------------------------------------
(* C22 *)

Specials == {"$", "\"", c_backtick}

\* the text between the double quotes of an export line
QuotedText(line) == SubSeq(line, IndexOf(line, "=") + 2, Len(line) - 1)

\* whether the shell finds, in a text between double quotes, a special
\* character that no backslash escapes: a backslash takes the character after
\* it with it
RECURSIVE HasUnescaped(_)
HasUnescaped(s) ==
    IF s = <<>> THEN FALSE
    ELSE IF Head(s) = "\\" THEN (Len(s) >= 2 /\ HasUnescaped(SubSeq(s, 3, Len(s))))
    ELSE Head(s) \in Specials \/ HasUnescaped(Tail(s))

\* s without the backslashes that stand before a special character
RECURSIVE RemoveAdded(_)
RemoveAdded(s) ==
    IF s = <<>> THEN <<>>
    ELSE IF Head(s) = "\\" /\ Len(s) >= 2 /\ s[2] \in Specials
    THEN <<s[2]>> \o RemoveAdded(SubSeq(s, 3, Len(s)))
    ELSE <<Head(s)>> \o RemoveAdded(Tail(s))

\* C22: in every export line the text between the quotes is the value with
\* one backslash added before each '$', '"' and grave accent; taking these
\* backslashes away gives the value; and no '$', '"' or grave accent in it is
\* unescaped.
C22_Original ==
    LastIsBash =>
        \A line \in ExportLines :
            LET key == SubSeq(line, 8, IndexOf(line, "=") - 1)
                v == ScriptInput.env[key]
            IN /\ QuotedText(line) = Escaped(v)
               /\ RemoveAdded(QuotedText(line)) = v
               /\ ~HasUnescaped(QuotedText(line))

----------------------------------------------------------------------------
(* C23 *)

ListOf(tech) == IF tech = PyNone THEN <<>> ELSE tech.list

\* C23: a setup_rundir call without force on a run directory that exists and
\* is not empty executes no data handler; every other call executes the init
\* data handlers of the science setup, then those of the tech setup, in list
\* order.
C23_Original ==
    last.op = "setup_rundir" =>
        IF ~last.force /\ last.dir_before = "nonempty"
        THEN last.executed = <<>>
        ELSE last.executed = last.science0 \o ListOf(last.tech0)

----------------------------------------------------------------------------
(* C27 *)

Count(s, x) == Cardinality({ i \in DOMAIN s : s[i] = x })

\* C27: after any number of setup_rundir calls the science setup and the tech
\* setup hold the init data handlers they were built with, and a call that
\* executes handlers executes each tech handler once.
C27_Original ==
    last.op = "setup_rundir" =>
        /\ last.science = last.science0
        /\ last.tech = last.tech0
        /\ last.executed # <<>> =>
              \A i \in DOMAIN ListOf(last.tech0) :
                  Count(last.executed, ListOf(last.tech0)[i]) = 1

----------------------------------------------------------------------------
(* C24 *)

Validated == last.op = "validate_result_identical"
WrongType == last.result.kind = "object" /\ last.result.cls # last.result_type
KeysDiffer == DictKeys(last.result.frames) # DictKeys(last.reference)
FramesEqual ==
    \A key \in DictKeys(last.result.frames) :
        compare([atol |-> last.atol, rtol |-> last.rtol],
                AsMap(last.result.frames)[key], AsMap(last.reference)[key]).equal

\* C24: validate_result_identical raises RuntimeError when the result is of
\* another type or the frame keys differ; otherwise it returns True exactly
\* when compare reports every result frame equal to the reference frame of
\* its key, so False also when compare reports not equal with no mismatch
\* position (index or columns differ).
C24_Original ==
    Validated =>
        IF WrongType \/ KeysDiffer THEN last.out = Raised("RuntimeError")
        ELSE last.out = Ok(FramesEqual)

----------------------------------------------------------------------------
(* C25 *)

Built == last.op = "build_launcher"
GivenDefaults ==
    IF last.default_launcher_flags = PyNone THEN <<>> ELSE last.default_launcher_flags.list
LauncherAvailable == Selected(last.self) > 0 \/ last.default_launcher # PyNone

\* C25: build_launcher returns (None, []) when no launcher is selected and
\* there is no default launcher; with a launcher and neither debug_ddt nor
\* bash set the flags are the default flags followed by add_launcher_flags
\* when launcher_flags is None and launcher_flags alone otherwise; without
\* debug_ddt the debug_launcher_flags change nothing of what is returned.
C25_BuilderFlags ==
    Built =>
        /\ ~LauncherAvailable => last.out.launcher = PyNone /\ last.out.flags = <<>>
        /\ (LauncherAvailable /\ ~last.self.debug_ddt /\ ~last.self.bash) =>
              /\ last.out.launcher # PyNone
              /\ last.out.flags = IF last.self.launcher_flags = PyNone
                                  THEN GivenDefaults \o last.self.add_launcher_flags
                                  ELSE last.self.launcher_flags.list
        /\ ~last.self.debug_ddt =>
              \A debug \in {<<>>, <<"--ddt-option=5">>, <<"-x", "-y">>} :
                  build_launcher([last.self EXCEPT !.debug_launcher_flags = debug],
                                 last.default_launcher, last.default_launcher_flags)
                  = last.out

C25_Witness ==
    /\ Built
    /\ last.self.launcher_flags = PyList(<<"--flagA">>)
    /\ last.self.add_launcher_flags = <<"--flagB">>
    /\ last.self.debug_launcher_flags # <<>>
    /\ last.default_launcher_flags = PyList(<<"--something">>)
    /\ last.out.launcher = MpirunObj(<<>>)
    /\ last.out.flags = <<"--flagA">>

----------------------------------------------------------------------------
(* C26 *)

\* the places of the objects of x, x itself included
RECURSIVE PlacesOf(_, _)
PlacesOf(x, me) ==
    {me} \cup UNION { IF IsObj(x.fields[n]) THEN PlacesOf(x.fields[n], me \o <<n>>)
                      ELSE IF IsList(x.fields[n])
                      THEN UNION { IF IsObj(x.fields[n].list[i])
                                   THEN PlacesOf(x.fields[n].list[i], me \o <<n, Place[i]>>)
                                   ELSE {} : i \in DOMAIN x.fields[n].list }
                      ELSE {} : n \in DOMAIN x.fields }

\* every field that is not None, those of the class of each object inside
\* and its class_name included
RECURSIVE Concrete(_)
Concrete(x) ==
    PyDict([n \in { m \in DOMAIN x.fields : x.fields[m] # PyNone } |->
              IF IsObj(x.fields[n]) THEN Concrete(x.fields[n])
              ELSE IF IsList(x.fields[n])
              THEN PyList([i \in DOMAIN x.fields[n].list |->
                             IF IsObj(x.fields[n].list[i]) THEN Concrete(x.fields[n].list[i])
                             ELSE x.fields[n].list[i]])
              ELSE x.fields[n]])

Dumped == last.op = "dump_config"

\* C26: dump_config ends, serialises every object inside, at every depth,
\* with all the fields of its own class and its class_name, whether or not
\* the class name of the outer object is asked for, and gives each object
\* to the default serialisation exactly once.
C26_NestedDump ==
    Dumped =>
        /\ last.out # Raised("RecursionError")
        /\ \A n \in DOMAIN last.out.dict \ {CLASSNAME} :
              last.out.dict[n] = Concrete(last.self).dict[n]
        /\ DOMAIN last.out.dict \ {CLASSNAME} = DOMAIN Concrete(last.self).dict \ {CLASSNAME}
        /\ Len(last.calls) = Cardinality(PlacesOf(last.self, <<>>))
        /\ Range(last.calls) = PlacesOf(last.self, <<>>)
        /\ last.recursive = {}

C26_Witness ==
    /\ Dumped
    /\ ~last.with_class
    /\ last.self = CompositeObj(DDTObj(<<>>, DirectObj(<<>>, PyStr("exe")), <<>>),
                                <<BashObj(<<>>)>>)
    /\ CLASSNAME \notin DOMAIN last.out.dict
    /\ last.out.dict.base_launcher.dict.base_launcher.dict
       = [class_name |-> PyStr("DirectLauncher"), flags |-> PyList(<<>>),
          executable |-> PyStr("exe")]
    /\ Len(last.calls) = 4

----------------------------------------------------------------------------
(* C28 *)

Science == HandlerNames("science", last.setup[1])
Tech == IF last.setup[2] = NoneI THEN <<>> ELSE HandlerNames("tech", last.setup[2])
App == HandlerNames(IF last.setup[2] # NoneI /\ last.setup[4] THEN "tech.application"
                    ELSE "science.application", last.setup[3])
ArchEnv == IF last.arch = PyNone THEN <<>> ELSE last.arch.env_handlers
Steps == SelectSeq(last.events, LAMBDA e : e \in {"execute", "prepare", "launch"})

\* C28: a run that ends without an error has executed the runtime data
\* handlers of science, tech and the application, each once and in this
\* order, then called prepare once, with a pipeline of the env handlers of
\* science, tech, arch and application in this order and with the launcher
\* and the flags given, those of the arch only where none were given, and
\* then launched once what prepare returned; no run prepares before all data
\* handlers are executed, prepares twice or launches twice.
C28_RunOrder ==
    last.op = "run" =>
        /\ Len(last.prepare) <= 1 /\ Len(last.launched) <= 1
        /\ last.prepare # <<>> => last.executed = Science \o Tech \o App
        /\ last.launched # <<>> => last.prepare # <<>>
        /\ last.at = "done" =>
              /\ last.executed = Science \o Tech \o App
              /\ Steps = [i \in 1..(Len(last.executed) + 2) |->
                            IF i <= Len(last.executed) THEN "execute"
                            ELSE IF i = Len(last.executed) + 1 THEN "prepare"
                            ELSE "launch"]
              /\ Len(last.prepare) = 1
              /\ last.prepare[1].handlers = Science \o Tech \o ArchEnv \o App
              /\ last.prepare[1].launcher =
                    IF last.given # "None" THEN last.given ELSE last.arch.default_launcher
              /\ last.prepare[1].launcher_flags =
                    IF last.given_flags # NoneL \/ last.arch = PyNone THEN last.given_flags
                    ELSE last.arch.default_launcher_flags
              /\ last.launched = <<LaunchDataOf(last.prepare[1])>>

\* a run with a launcher and flags given, an arch that has defaults for both
\* and an env handler, and a tech setup with an application of its own
C28_Witness ==
    /\ last.op = "run"
    /\ last.at = "done"
    /\ last.setup = <<MaxData, 1, MaxData, TRUE>>
    /\ last.given = "_DummyLauncher"
    /\ last.given_flags = <<s_v>>
    /\ last.arch = ArchResult("_DummyLauncher", <<s_f>>, HandlerNames("arch", 1))
    /\ last.prepare[1].launcher_flags = <<s_v>>
    /\ Len(last.prepare[1].handlers) = 2 * MaxData + 2
    /\ Len(last.launched) = 1

----------------------------------------------------------------------------
(* C29 *)

\* the script that the BashLauncher of stage k writes: that of the LaunchData
\* it was given
ScriptOf(k) ==
    LET launch_data == heap[stages[k].input]
    IN write_bash_file(launch_data.run_dir, heap[launch_data.cmd].v,
                       heap[launch_data.env].v)

\* the last stage of a BashLauncher that read the clock as stage k did
LastAt(k) ==
    CHOOSE j \in BashStages :
        /\ stages[j].now = stages[k].now
        /\ \A i \in BashStages : stages[i].now = stages[k].now => i <= j

\* C29: of two BashLauncher.wrap calls for the same run_dir and the same last
\* path component of cmd[0], those that read the same UTC time return equal
\* LaunchData and write the same file, which holds the script of the later
\* call whatever the LaunchData given were; those that read different times
\* return different script paths, and the script of the earlier call stays
\* as it was written.
C29_SameStampSameScript ==
    InComposite =>
        /\ \A j \in BashStages, k \in BashStages :
              IF stages[j].now = stages[k].now
              THEN stages[j].value = stages[k].value
              ELSE stages[j].value.cmd[2] # stages[k].value.cmd[2]
        /\ \A k \in BashStages :
              /\ stages[k].value.cmd[2] \in DOMAIN files
              /\ files[stages[k].value.cmd[2]] = ScriptOf(LastAt(k))

\* two BashLaunchers in one chain read the same time: one file, which holds
\* the script of the second, a script that runs the file itself
C29_Witness ==
    /\ InComposite
    /\ BashStages = {2, 3}
    /\ stages[2].now = stages[3].now
    /\ stages[2].value = stages[3].value
    /\ ScriptOf(2) # ScriptOf(3)
    /\ files[stages[2].value.cmd[2]] = ScriptOf(3)
    /\ Cardinality(DOMAIN files) = 1

----------------------------------------------------------------------------
(* C30 *)

Renamed == last.op = "RenameHandler.execute"
NewPath(f) == replace(f, last.self.pattern, last.self.repl)

\* C30: an execute call that raises RuntimeError has left every file of wdir
\* as it was; one that returns has copied, moved or linked every file whose
\* substituted path differs from its path.
C30_Original ==
    Renamed =>
        /\ last.out = "RuntimeError" => last.after = last.before
        /\ last.out = "returned" =>
              \A f \in DOMAIN last.before :
                  NewPath(f) # f =>
                      /\ NewPath(f) \in DOMAIN last.after
                      /\ last.after[NewPath(f)] =
                            IF last.self.mode = "SYMLINK" THEN Symlink(f) ELSE last.before[f]
                      /\ last.self.mode = "MOVE" => f \notin DOMAIN last.after

====
